---- MODULE Spec2Model ----
(***************************************************************************)
(* Model of the mystical-runic template engine (src/src/engine.rs,         *)
(* src/src/layouts.rs, src/src/bytecode.rs, src/src/context.rs).           *)
(*                                                                         *)
(* Strings are sequences of one-character strings, offsets are the 0-based *)
(* byte offsets of the Rust code (the model alphabet is ASCII, one byte    *)
(* per character).  A fallible call returns a record                       *)
(*    [kind |-> "Ok" | "Err" | "Panic" | "Hang", val |-> ..., err |-> ...] *)
(* where "Panic" is an out-of-range slice or index and "Hang" is a loop    *)
(* of the code that did not finish within MaxIter iterations.              *)
(***************************************************************************)
EXTENDS Integers, Sequences, FiniteSets, TLC

\* ---------------------------------------------------------------- bounds
\* iterations granted to each rewriting loop / recursion of a render
MaxIter == 12

\* ------------------------------------------------------- string library
Min(a, b) == IF a < b THEN a ELSE b

\* Rust &s[a..b]
Slice(s, a, b) == SubSeq(s, a + 1, b)

\* true when &s[a..b] does not abort
SliceOk(s, a, b) == 0 <= a /\ a <= b /\ b <= Len(s)

\* Rust &s[a..]
SliceFrom(s, a) == SubSeq(s, a + 1, Len(s))

\* s[i..].starts_with(pat), i a 0-based offset
StartsWithAt(s, i, pat) ==
    /\ i + Len(pat) <= Len(s)
    /\ \A k \in 1..Len(pat) : s[i + k] = pat[k]

StartsWith(s, pat) == StartsWithAt(s, 0, pat)

EndsWith(s, pat) == Len(pat) <= Len(s) /\ StartsWithAt(s, Len(s) - Len(pat), pat)

\* the offsets at which pat occurs in s
Occurrences(s, pat) == {i \in 0..(Len(s) - Len(pat)) : StartsWithAt(s, i, pat)}

SetMin(S) == CHOOSE x \in S : \A y \in S : x <= y
SetMax(S) == CHOOSE x \in S : \A y \in S : x >= y

\* str::find: offset of the first occurrence, -1 for None
Find(s, pat) == LET occ == Occurrences(s, pat) IN IF occ = {} THEN -1 ELSE SetMin(occ)

\* s[from..].find(pat): offset relative to from, -1 for None
FindFrom(s, from, pat) == Find(SliceFrom(s, from), pat)

\* str::rfind: offset of the last occurrence, -1 for None
RFind(s, pat) == LET occ == Occurrences(s, pat) IN IF occ = {} THEN -1 ELSE SetMax(occ)

Contains(s, pat) == Occurrences(s, pat) # {}

\* String::replace_range(a..b, r)
ReplaceRange(s, a, b, r) == Slice(s, 0, a) \o r \o SliceFrom(s, b)

Whitespace == {" ", "\n", "\t"}

RECURSIVE TrimStartSet(_, _)
TrimStartSet(s, cs) ==
    IF s # <<>> /\ Head(s) \in cs THEN TrimStartSet(Tail(s), cs) ELSE s

RECURSIVE TrimEndSet(_, _)
TrimEndSet(s, cs) ==
    IF s # <<>> /\ s[Len(s)] \in cs THEN TrimEndSet(SubSeq(s, 1, Len(s) - 1), cs) ELSE s

\* str::trim
Trim(s) == TrimEndSet(TrimStartSet(s, Whitespace), Whitespace)

\* str::trim_matches(c)
TrimMatches(s, c) == TrimEndSet(TrimStartSet(s, {c}), {c})

\* .trim_matches('"').trim_matches('\'')
TrimQuotes(s) == TrimMatches(TrimMatches(s, "\""), "'")

\* str::split(pat) for a non-empty pattern: always at least one piece
RECURSIVE SplitStr(_, _)
SplitStr(s, pat) ==
    LET i == Find(s, pat)
    IN  IF i = -1 THEN <<s>>
        ELSE <<Slice(s, 0, i)>> \o SplitStr(SliceFrom(s, i + Len(pat)), pat)

Split(s, c) == SplitStr(s, <<c>>)

\* str::split_whitespace: the non-empty maximal runs of non-whitespace
RECURSIVE SplitWhitespace(_)
SplitWhitespace(s) ==
    LET t == TrimStartSet(s, Whitespace)
        ws == {i \in 1..Len(t) : t[i] \in Whitespace}
        n == IF ws = {} THEN Len(t) + 1 ELSE SetMin(ws)
    IN  IF t = <<>> THEN <<>>
        ELSE <<SubSeq(t, 1, n - 1)>> \o SplitWhitespace(SubSeq(t, n, Len(t)))

RECURSIVE Join(_, _)
Join(parts, sep) ==
    IF parts = <<>> THEN <<>>
    ELSE IF Len(parts) = 1 THEN parts[1]
    ELSE parts[1] \o sep \o Join(Tail(parts), sep)

RECURSIVE Concat(_)
Concat(parts) == IF parts = <<>> THEN <<>> ELSE Head(parts) \o Concat(Tail(parts))

Reverse(s) == [i \in 1..Len(s) |-> s[Len(s) + 1 - i]]

Digits == <<"0", "1", "2", "3", "4", "5", "6", "7", "8", "9">>
DigitSet == {Digits[i] : i \in 1..10}
DigitVal(c) == (CHOOSE i \in 1..10 : Digits[i] = c) - 1

RECURSIVE NatToStr(_)
NatToStr(n) == IF n < 10 THEN <<Digits[n + 1]>> ELSE NatToStr(n \div 10) \o <<Digits[(n % 10) + 1]>>

\* i64::to_string
IntToStr(n) == IF n < 0 THEN <<"-">> \o NatToStr(0 - n) ELSE NatToStr(n)

RECURSIVE DigitsToNat(_)
DigitsToNat(s) == IF s = <<>> THEN 0 ELSE 10 * DigitsToNat(SubSeq(s, 1, Len(s) - 1)) + DigitVal(s[Len(s)])

AllDigits(s) == s # <<>> /\ \A i \in 1..Len(s) : s[i] \in DigitSet

\* str::parse::<usize>() succeeds
IsUsize(s) == AllDigits(s) \/ (Len(s) > 1 /\ s[1] = "+" /\ AllDigits(Tail(s)))
ParseUsize(s) == IF s[1] = "+" THEN DigitsToNat(Tail(s)) ELSE DigitsToNat(s)

\* str::parse::<i64>() succeeds (the model's numbers stay far from the i64 range)
IsI64(s) == AllDigits(s) \/ (Len(s) > 1 /\ s[1] \in {"+", "-"} /\ AllDigits(Tail(s)))
ParseI64(s) ==
    IF s[1] = "-" THEN 0 - DigitsToNat(Tail(s))
    ELSE IF s[1] = "+" THEN DigitsToNat(Tail(s))
    ELSE DigitsToNat(s)

Lower == <<"a", "b", "c", "d", "e", "f", "g", "h", "i", "j", "k", "l", "m",
           "n", "o", "p", "q", "r", "s", "t", "u", "v", "w", "x", "y", "z">>
Upper == <<"A", "B", "C", "D", "E", "F", "G", "H", "I", "J", "K", "L", "M",
           "N", "O", "P", "Q", "R", "S", "T", "U", "V", "W", "X", "Y", "Z">>
LowerSet == {Lower[i] : i \in 1..26}
UpperSet == {Upper[i] : i \in 1..26}

UpperChar(c) == IF c \in LowerSet THEN Upper[CHOOSE i \in 1..26 : Lower[i] = c] ELSE c
LowerChar(c) == IF c \in UpperSet THEN Lower[CHOOSE i \in 1..26 : Upper[i] = c] ELSE c

\* str::to_uppercase / str::to_lowercase
ToUpper(s) == [i \in 1..Len(s) |-> UpperChar(s[i])]
ToLower(s) == [i \in 1..Len(s) |-> LowerChar(s[i])]

IsAlphanumeric(c) == c \in LowerSet \cup UpperSet \cup DigitSet

\* ------------------------------------------------------------- results
Ok(v) == [kind |-> "Ok", val |-> v, err |-> "None"]
Err(e) == [kind |-> "Err", val |-> <<>>, err |-> e]
Panic == [kind |-> "Panic", val |-> <<>>, err |-> "None"]
Hang == [kind |-> "Hang", val |-> <<>>, err |-> "None"]
IsOk(r) == r.kind = "Ok"

\* ---------------------------------------------------------- i64 arithmetic
\* exact integers as a sign and a decimal magnitude (a digit string with no
\* leading zero), so that values at the ends of the i64 range are computed
\* exactly
RECURSIVE StripZeros(_)
StripZeros(m) == IF Len(m) > 1 /\ m[1] = "0" THEN StripZeros(Tail(m)) ELSE m

PadTo(m, n) == [i \in 1..(n - Len(m)) |-> "0"] \o m

\* a < b on digit strings of one length
RECURSIVE DigitsLess(_, _)
DigitsLess(a, b) ==
    /\ a # <<>>
    /\ \/ DigitVal(a[1]) < DigitVal(b[1])
       \/ a[1] = b[1] /\ DigitsLess(Tail(a), Tail(b))

MagLess(a, b) == Len(a) < Len(b) \/ (Len(a) = Len(b) /\ DigitsLess(a, b))

\* the digits 1..i of a + b + carry, a and b of one length
RECURSIVE AddDigits(_, _, _, _)
AddDigits(a, b, i, carry) ==
    IF i = 0 THEN (IF carry = 0 THEN <<>> ELSE <<Digits[carry + 1]>>)
    ELSE AddDigits(a, b, i - 1, (DigitVal(a[i]) + DigitVal(b[i]) + carry) \div 10)
         \o <<Digits[((DigitVal(a[i]) + DigitVal(b[i]) + carry) % 10) + 1]>>

AddPadded(a, b, n) == StripZeros(AddDigits(PadTo(a, n), PadTo(b, n), n, 0))

MagAdd(a, b) == AddPadded(a, b, IF Len(a) < Len(b) THEN Len(b) ELSE Len(a))

\* the digits 1..i of a - b - borrow, a and b of one length, a >= b
RECURSIVE SubDigits(_, _, _, _)
SubDigits(a, b, i, borrow) ==
    IF i = 0 THEN <<>>
    ELSE SubDigits(a, b, i - 1, IF DigitVal(a[i]) - DigitVal(b[i]) - borrow < 0 THEN 1 ELSE 0)
         \o <<Digits[((DigitVal(a[i]) - DigitVal(b[i]) - borrow + 10) % 10) + 1]>>

MagSub(a, b) == StripZeros(SubDigits(a, PadTo(b, Len(a)), Len(a), 0))

RECURSIVE MagMulDigit(_, _)
MagMulDigit(a, d) == IF d = 0 THEN <<"0">> ELSE MagAdd(a, MagMulDigit(a, d - 1))

RECURSIVE MagMul(_, _)
MagMul(a, b) ==
    IF b = <<>> THEN <<"0">>
    ELSE MagAdd(MagMulDigit(a, DigitVal(b[Len(b)])),
                StripZeros(MagMul(a, SubSeq(b, 1, Len(b) - 1)) \o <<"0">>))

\* an exact integer; zero is not negative
Big(neg, mag) == [neg |-> neg /\ mag # <<"0">>, mag |-> mag]

BigAdd(x, y) ==
    IF x.neg = y.neg THEN Big(x.neg, MagAdd(x.mag, y.mag))
    ELSE IF MagLess(x.mag, y.mag) THEN Big(y.neg, MagSub(y.mag, x.mag))
    ELSE Big(x.neg, MagSub(x.mag, y.mag))

BigMul(x, y) == Big(x.neg # y.neg, MagMul(x.mag, y.mag))

\* i64::MAX, -i64::MIN and 2^64
I64_MAX_MAG == <<"9", "2", "2", "3", "3", "7", "2", "0", "3", "6", "8", "5", "4", "7", "7", "5", "8", "0", "7">>
I64_MIN_MAG == <<"9", "2", "2", "3", "3", "7", "2", "0", "3", "6", "8", "5", "4", "7", "7", "5", "8", "0", "8">>
TWO_64_MAG == <<"1", "8", "4", "4", "6", "7", "4", "4", "0", "7", "3", "7", "0", "9", "5", "5", "1", "6", "1", "6">>

FitsI64(x) ==
    IF x.neg THEN ~MagLess(I64_MIN_MAG, x.mag) ELSE ~MagLess(I64_MAX_MAG, x.mag)

\* the integer a decimal text with an optional sign denotes
BigOfText(s) ==
    IF s[1] \in {"+", "-"} THEN Big(s[1] = "-", StripZeros(Tail(s))) ELSE Big(FALSE, StripZeros(s))

\* i64::to_string
BigToStr(x) == (IF x.neg THEN <<"-">> ELSE <<>>) \o x.mag

\* the i64 that the low 64 bits of an exact integer denote (two's complement)
RECURSIVE WrapI64(_)
WrapI64(x) ==
    IF FitsI64(x) THEN x
    ELSE IF x.neg THEN WrapI64(BigAdd(x, Big(FALSE, TWO_64_MAG)))
    ELSE WrapI64(BigAdd(x, Big(TRUE, TWO_64_MAG)))

\* ------------------------------------------------- TemplateValue, context
VString(s) == [tag |-> "String", s |-> s]
VBool(b) == [tag |-> "Bool", b |-> b]
VNumber(n) == [tag |-> "Number", n |-> n]
VArray(items) == [tag |-> "Array", items |-> items]
\* fields: a function from keys (strings) to values
VObject(fields) == [tag |-> "Object", fields |-> fields]

EmptyMap == [x \in {} |-> <<>>]
TRUE_STR == <<"t", "r", "u", "e">>
FALSE_STR == <<"f", "a", "l", "s", "e">>
BoolToStr(b) == IF b THEN TRUE_STR ELSE FALSE_STR

\* TemplateContext::get
HasVar(ctx, name) == name \in DOMAIN ctx

\* TemplateContext::set
ctx_set(ctx, name, value) ==
    [k \in DOMAIN ctx \cup {name} |-> IF k = name THEN value ELSE ctx[k]]

\* the stringification shared by get_string and traverse_nested_value
scalar_to_string(v) ==
    CASE v.tag = "String" -> v.s
      [] v.tag = "Bool" -> BoolToStr(v.b)
      [] v.tag = "Number" -> IntToStr(v.n)
      [] OTHER -> <<>>

\* TemplateContext::get_string(name).unwrap_or_default()
get_string_or_default(ctx, name) ==
    IF HasVar(ctx, name) THEN scalar_to_string(ctx[name]) ELSE <<>>

\* one step of a dotted path: [found |-> BOOLEAN, v |-> value]
path_step(cur, part) ==
    CASE cur.tag = "Object" ->
            IF part \in DOMAIN cur.fields
            THEN [found |-> TRUE, v |-> cur.fields[part]]
            ELSE [found |-> FALSE, v |-> cur]
      [] cur.tag = "Array" ->
            IF IsUsize(part) /\ ParseUsize(part) < Len(cur.items)
            THEN [found |-> TRUE, v |-> cur.items[ParseUsize(part) + 1]]
            ELSE [found |-> FALSE, v |-> cur]
      [] OTHER -> [found |-> FALSE, v |-> cur]

\* the walk of traverse_nested_value / get_nested_value /
\* evaluate_nested_condition: [found, v]
RECURSIVE walk_path(_, _)
\* the walk after one step
walk_step(st, parts) == IF st.found THEN walk_path(st.v, Tail(parts)) ELSE st

walk_path(cur, parts) ==
    IF parts = <<>> THEN [found |-> TRUE, v |-> cur]
    ELSE walk_step(path_step(cur, Head(parts)), parts)

\* traverse_nested_value: the string of the value the walk ends on
walked_string(w) == IF w.found THEN scalar_to_string(w.v) ELSE <<>>

traverse_nested_value(cur, parts) == walked_string(walk_path(cur, parts))

\* get_nested_value: the value the walk ends on
walked_value(w) == IF w.found THEN w.v ELSE VString(<<>>)

get_nested_value(cur, parts) == walked_value(walk_path(cur, parts))

\* crate::utils::html_escape, one character
escape_char(c) ==
    CASE c = "&" -> <<"&", "a", "m", "p", ";">>
      [] c = "<" -> <<"&", "l", "t", ";">>
      [] c = ">" -> <<"&", "g", "t", ";">>
      [] c = "\"" -> <<"&", "q", "u", "o", "t", ";">>
      [] c = "'" -> <<"&", "#", "x", "2", "7", ";">>
      [] OTHER -> <<c>>

\* crate::utils::html_escape
html_escape(s) == Concat([i \in 1..Len(s) |-> escape_char(s[i])])

\* ---------------------------------------------------------------- filters
S_upper == <<"u", "p", "p", "e", "r">>
S_lower == <<"l", "o", "w", "e", "r">>
S_capitalize == <<"c", "a", "p", "i", "t", "a", "l", "i", "z", "e">>
S_truncate == <<"t", "r", "u", "n", "c", "a", "t", "e">>
S_currency == <<"c", "u", "r", "r", "e", "n", "c", "y">>
S_date == <<"d", "a", "t", "e">>
S_strip == <<"s", "t", "r", "i", "p">>
S_add == <<"a", "d", "d">>
S_multiply == <<"m", "u", "l", "t", "i", "p", "l", "y">>
S_markdown == <<"m", "a", "r", "k", "d", "o", "w", "n">>
S_highlight == <<"h", "i", "g", "h", "l", "i", "g", "h", "t">>
S_slugify == <<"s", "l", "u", "g", "i", "f", "y">>
S_divide == <<"d", "i", "v", "i", "d", "e">>
S_percentage == <<"p", "e", "r", "c", "e", "n", "t", "a", "g", "e">>
S_round == <<"r", "o", "u", "n", "d">>

BuiltinFilters ==
    {S_upper, S_lower, S_capitalize, S_truncate, S_currency, S_date, S_strip, S_add,
     S_multiply, S_markdown, S_highlight, S_slugify, S_divide, S_percentage, S_round}

\* the closures the model registers as custom filters or helpers
CustomReverse(value, args) == Ok(Reverse(value))
CustomExclaim(value, args) == Ok(value \o <<"!">>)
CustomAppend(value, args) == Ok(value \o (IF args = <<>> THEN <<>> ELSE args[1]))
CustomFail(value, args) == Err("Runtime")

call_custom_filter(id, value, args) ==
    CASE id = "reverse" -> CustomReverse(value, args)
      [] id = "exclaim" -> CustomExclaim(value, args)
      [] id = "append" -> CustomAppend(value, args)
      [] OTHER -> CustomFail(value, args)

capitalize_word(w) == <<UpperChar(w[1])>> \o Tail(w)

filter_capitalize(value) ==
    IF value = <<>> THEN <<>>
    ELSE LET ws == SplitWhitespace(value)
         IN  Join([i \in 1..Len(ws) |-> capitalize_word(ws[i])], <<" ">>)

filter_truncate(value, args) ==
    IF args # <<>> /\ IsUsize(args[1])
    THEN IF Len(value) > ParseUsize(args[1])
         THEN Slice(value, 0, Min(ParseUsize(args[1]), Len(value))) \o <<".", ".", ".">>
         ELSE value
    ELSE value

TwoDigits(n) == <<Digits[(n \div 10) + 1], Digits[(n % 10) + 1]>>

\* format!("${:.2}", ..) of an integer number of cents or dollars; a value
\* that is no integer literal is prefixed with $ (fractional f64 literals
\* are outside the model's inputs)
filter_currency(value) ==
    IF IsI64(value)
    THEN LET num == ParseI64(value)
         IN  IF num >= 100
             THEN <<"$">> \o NatToStr(num \div 100) \o <<".">> \o TwoDigits(num % 100)
             ELSE <<"$">> \o IntToStr(num) \o <<".", "0", "0">>
    ELSE <<"$">> \o value

\* str::parse::<i64>() is Ok: a decimal text, with an optional sign, of a
\* number in the i64 range
parses_i64(s) == IsI64(s) /\ FitsI64(BigOfText(s))

\* an i64 `+` or `*` whose exact result is `exact`, then to_string: with
\* overflow checks (the debug profile) an overflow panics, without them
\* (the release profile) the result wraps around
i64_arith(exact, overflow_checks) ==
    IF FitsI64(exact) THEN Ok(BigToStr(exact))
    ELSE IF overflow_checks THEN Panic
    ELSE Ok(BigToStr(WrapI64(exact)))

\* the "add" arm of apply_single_filter in a build with or without overflow
\* checks: Ok(text) or Panic
add_arm(value, args, overflow_checks) ==
    IF args # <<>> /\ parses_i64(value) /\ parses_i64(args[1])
    THEN i64_arith(BigAdd(BigOfText(value), BigOfText(args[1])), overflow_checks)
    ELSE Ok(value)

\* the "multiply" arm of apply_single_filter
multiply_arm(value, args, overflow_checks) ==
    IF args # <<>> /\ parses_i64(value) /\ parses_i64(args[1])
    THEN i64_arith(BigMul(BigOfText(value), BigOfText(args[1])), overflow_checks)
    ELSE Ok(value)

\* the arms within a render: the texts of the builds agree wherever the
\* result fits, which it does for every number the renders are given
filter_add(value, args) == add_arm(value, args, FALSE).val

filter_multiply(value, args) == multiply_arm(value, args, FALSE).val

STAR2 == <<"*", "*">>

RECURSIVE markdown_strong(_)
\* the ** pair of the markdown filter's bold rule
strong_span(s, start, end) ==
    IF end = -1 THEN s
    ELSE markdown_strong(ReplaceRange(s, start, start + 2 + end + 2,
             <<"<", "s", "t", "r", "o", "n", "g", ">">> \o Slice(s, start + 2, start + 2 + end)
             \o <<"<", "/", "s", "t", "r", "o", "n", "g", ">">>))

strong_from(s, start) ==
    IF start = -1 THEN s ELSE strong_span(s, start, FindFrom(s, start + 2, STAR2))

markdown_strong(s) == strong_from(s, Find(s, STAR2))

filter_markdown(value) == <<"<", "p", ">">> \o markdown_strong(value) \o <<"<", "/", "p", ">">>

PRE_OPEN == <<"<", "p", "r", "e", ">", "<", "c", "o", "d", "e">>
PRE_CLOSE == <<"<", "/", "c", "o", "d", "e", ">", "<", "/", "p", "r", "e", ">">>

filter_highlight(value, args) ==
    IF args # <<>>
    THEN PRE_OPEN \o <<" ", "c", "l", "a", "s", "s", "=", "\"">> \o args[1] \o <<"\"", ">">>
         \o value \o PRE_CLOSE
    ELSE PRE_OPEN \o <<">">> \o value \o PRE_CLOSE

filter_slugify(value) ==
    LET low == ToLower(value)
        dashed == [i \in 1..Len(low) |-> IF IsAlphanumeric(low[i]) THEN low[i] ELSE "-"]
        pieces == Split(dashed, "-")
    IN  Join(SelectSeq(pieces, LAMBDA p : p # <<>>), <<"-">>)

\* (num / div).to_string() on f64: exact for the integer quotients of the
\* model; a quotient with a fraction is outside the model's inputs and is
\* left as the literal text of the division
filter_divide(value, args) ==
    IF args # <<>> /\ IsI64(value) /\ IsI64(args[1]) /\ ParseI64(args[1]) # 0
    THEN IF ParseI64(value) % ParseI64(args[1]) = 0 /\ ParseI64(args[1]) > 0
         THEN IntToStr(ParseI64(value) \div ParseI64(args[1]))
         ELSE value \o <<"/">> \o args[1]
    ELSE value

RECURSIVE Zeros(_)
Zeros(n) == IF n = 0 THEN <<>> ELSE <<"0">> \o Zeros(n - 1)

\* format!("{:.N}", ..) of an integer-valued f64
filter_round(value, args) ==
    IF args # <<>> /\ IsI64(value) /\ IsUsize(args[1])
    THEN IF ParseUsize(args[1]) = 0 THEN IntToStr(ParseI64(value))
         ELSE IntToStr(ParseI64(value)) \o <<".">> \o Zeros(ParseUsize(args[1]))
    ELSE IF IsI64(value) THEN IntToStr(ParseI64(value)) \o <<".", "0", "0">>
    ELSE value

\* apply_single_filter: a custom filter that fails leaves the value as it is
custom_filter_or_value(r, value) == IF IsOk(r) THEN r.val ELSE value

\* apply_single_filter: the match on filter_name
apply_named_filter(custom_filters, value, filter_name, args) ==
    CASE filter_name = S_upper -> ToUpper(value)
      [] filter_name = S_lower -> ToLower(value)
      [] filter_name = S_capitalize -> filter_capitalize(value)
      [] filter_name = S_truncate -> filter_truncate(value, args)
      [] filter_name = S_currency -> filter_currency(value)
      [] filter_name = S_date -> value
      [] filter_name = S_strip -> Trim(value)
      [] filter_name = S_add -> filter_add(value, args)
      [] filter_name = S_multiply -> filter_multiply(value, args)
      [] filter_name = S_markdown -> filter_markdown(value)
      [] filter_name = S_highlight -> filter_highlight(value, args)
      [] filter_name = S_slugify -> filter_slugify(value)
      [] filter_name = S_divide -> filter_divide(value, args)
      [] filter_name = S_percentage -> value \o <<"%">>
      [] filter_name = S_round -> filter_round(value, args)
      [] OTHER ->
            IF filter_name \in DOMAIN custom_filters
            THEN custom_filter_or_value(
                     call_custom_filter(custom_filters[filter_name], value, args), value)
            ELSE value

\* apply_single_filter: filter_parts[1..] with the quotes trimmed
filter_args(filter_parts) ==
    [i \in 1..(Len(filter_parts) - 1) |-> TrimQuotes(filter_parts[i + 1])]

\* apply_single_filter on the pieces of filter_expr.split(':')
filter_of_parts(custom_filters, value, filter_parts) ==
    apply_named_filter(custom_filters, value, filter_parts[1], filter_args(filter_parts))

\* TemplateEngine::apply_single_filter; custom_filters: name -> closure id
apply_single_filter(custom_filters, value, filter_expr) ==
    filter_of_parts(custom_filters, value, Split(filter_expr, ":"))

\* the value of a dotted variable expression
resolve_nested(parts, ctx) ==
    IF HasVar(ctx, parts[1]) THEN traverse_nested_value(ctx[parts[1]], Tail(parts)) ELSE <<>>

\* the value of a plain (filter-free) variable expression
resolve_string(var_name, ctx) ==
    IF Contains(var_name, <<".">>) THEN resolve_nested(Split(var_name, "."), ctx)
    ELSE get_string_or_default(ctx, var_name)

\* a fold that applies the last filter of the chain first
RECURSIVE fold_filters_from_right(_, _, _)
fold_filters_from_right(custom_filters, value, exprs) ==
    IF exprs = <<>> THEN value
    ELSE fold_filters_from_right(custom_filters,
             apply_single_filter(custom_filters, value, Trim(exprs[Len(exprs)])),
             SubSeq(exprs, 1, Len(exprs) - 1))

\* the loop of apply_filters over the filter expressions, left to right
RECURSIVE fold_filters(_, _, _)
fold_filters(custom_filters, value, exprs) ==
    IF exprs = <<>> THEN value
    ELSE fold_filters(custom_filters,
                      apply_single_filter(custom_filters, value, Trim(Head(exprs))),
                      Tail(exprs))

\* apply_filters on the pieces of expression.split('|')
filters_of_parts(custom_filters, parts, ctx) ==
    fold_filters(custom_filters, resolve_string(Trim(parts[1]), ctx), Tail(parts))

\* TemplateEngine::apply_filters
apply_filters(custom_filters, expression, ctx) ==
    filters_of_parts(custom_filters, Split(expression, "|"), ctx)

\* TemplateEngine::get_variable_value
get_variable_value(custom_filters, var_name, ctx) ==
    IF Contains(var_name, <<"|">>) THEN apply_filters(custom_filters, var_name, ctx)
    ELSE resolve_string(var_name, ctx)

\* uses_html_producing_filter: some filter of the chain is markdown or highlight
any_html_filter(filters) ==
    \E i \in 1..Len(filters) : Trim(Split(filters[i], ":")[1]) \in {S_markdown, S_highlight}

\* TemplateEngine::uses_html_producing_filter
uses_html_producing_filter(var_expression) ==
    any_html_filter(Tail(Split(var_expression, "|")))

\* ----------------------------------------------------- directive tokens
OPEN == <<"{", "{">>
CLOSE == <<"}", "}">>
RAW_OPEN == <<"{", "{", "&", " ">>
IF_OPEN == <<"{", "{", "i", "f", " ">>
IF_END == <<"{", "{", "/", "i", "f", "}", "}">>
FOR_OPEN == <<"{", "{", "f", "o", "r", " ">>
FOR_END == <<"{", "{", "/", "f", "o", "r", "}", "}">>
INCLUDE_OPEN == <<"{", "{", "i", "n", "c", "l", "u", "d", "e", " ">>
COMMENT_OPEN == <<"{", "{", "!">>
SLASH_OPEN == <<"{", "{", "/">>
MACRO_OPEN == <<"{", "{", "m", "a", "c", "r", "o", " ">>
MACRO_END == <<"{", "{", "/", "m", "a", "c", "r", "o", "}", "}">>
T_OPEN == <<"{", "{", "t", " ">>
PLURAL_OPEN == <<"{", "{", "p", "l", "u", "r", "a", "l", " ">>
IN_SEP == <<" ", "i", "n", " ">>

\* ----------------------------------------------------------- helper calls
\* the quote-aware scan of parse_helper_args / parse_argument_list:
\* the raw pieces between top-level commas
RECURSIVE scan_args(_, _, _, _)
scan_args(rest, current, in_quotes, quote_char) ==
    IF rest = <<>> THEN IF Trim(current) # <<>> THEN <<current>> ELSE <<>>
    ELSE LET ch == Head(rest)
         IN  IF ch \in {"\"", "'"} /\ ~in_quotes
             THEN scan_args(Tail(rest), Append(current, ch), TRUE, ch)
             ELSE IF in_quotes /\ ch = quote_char
             THEN scan_args(Tail(rest), Append(current, ch), FALSE, quote_char)
             ELSE IF ch = "," /\ ~in_quotes
             THEN <<current>> \o scan_args(Tail(rest), <<>>, in_quotes, quote_char)
             ELSE scan_args(Tail(rest), Append(current, ch), in_quotes, quote_char)

\* parse_argument_list: every piece trimmed
trim_all(raw) == [i \in 1..Len(raw) |-> Trim(raw[i])]

\* TemplateEngine::parse_argument_list
parse_argument_list(args_str) == trim_all(scan_args(args_str, <<>>, FALSE, "\""))

IsQuoted(arg) ==
    \/ StartsWith(arg, <<"\"">>) /\ EndsWith(arg, <<"\"">>)
    \/ StartsWith(arg, <<"'">>) /\ EndsWith(arg, <<"'">>)

\* the lookup of a dotted expression
lookup_nested(parts, ctx) ==
    IF HasVar(ctx, parts[1])
    THEN [found |-> TRUE, v |-> get_nested_value(ctx[parts[1]], Tail(parts))]
    ELSE [found |-> FALSE, v |-> VString(<<>>)]

\* the variable lookup shared by parse_single_helper_arg and
\* get_condition_value: [found, v]
lookup_value(expr, ctx) ==
    IF Contains(expr, <<".">>) THEN lookup_nested(Split(expr, "."), ctx)
    ELSE IF HasVar(ctx, expr) THEN [found |-> TRUE, v |-> ctx[expr]]
    ELSE [found |-> FALSE, v |-> VString(<<>>)]

\* the value found, or the value of an unbound name
found_or_default(l, dflt) == IF l.found THEN Ok(l.v) ELSE Ok(dflt)

\* the literal forms shared by parse_single_helper_arg and
\* get_condition_value; dflt is the value of an unbound name
literal_or_variable(expr, ctx, dflt) ==
    IF IsQuoted(expr)
    THEN IF SliceOk(expr, 1, Len(expr) - 1)
         THEN Ok(VString(Slice(expr, 1, Len(expr) - 1)))
         ELSE Panic
    ELSE IF IsI64(expr) THEN Ok(VNumber(ParseI64(expr)))
    ELSE IF expr = TRUE_STR THEN Ok(VBool(TRUE))
    ELSE IF expr = FALSE_STR THEN Ok(VBool(FALSE))
    ELSE found_or_default(lookup_value(expr, ctx), dflt)

\* TemplateEngine::parse_single_helper_arg
parse_single_helper_arg(arg, ctx) == literal_or_variable(Trim(arg), ctx, VString(Trim(arg)))

\* parse_helper_args: the parsed values, or the abort of one of them
collect_args(vals) ==
    IF \E i \in 1..Len(vals) : ~IsOk(vals[i]) THEN Panic
    ELSE Ok([i \in 1..Len(vals) |-> vals[i].val])

\* parse_helper_args: every argument string parsed
parse_arg_strings(strs, ctx) ==
    collect_args([i \in 1..Len(strs) |-> parse_single_helper_arg(strs[i], ctx)])

\* TemplateEngine::parse_helper_args: Ok(sequence of values) or Panic
parse_helper_args(args_str, ctx) ==
    IF Trim(args_str) = <<>> THEN Ok(<<>>)
    ELSE parse_arg_strings(parse_argument_list(args_str), ctx)

\* an enumeration of a finite set (the iteration order of a HashMap is
\* unspecified; the model takes one order)
RECURSIVE SetToSeq(_)
SetToSeq(S) == IF S = {} THEN <<>> ELSE LET x == CHOOSE x \in S : TRUE IN <<x>> \o SetToSeq(S \ {x})

\* TemplateEngine::template_value_to_string
RECURSIVE template_value_to_string(_)
template_value_to_string(v) ==
    CASE v.tag = "String" -> v.s
      [] v.tag = "Number" -> IntToStr(v.n)
      [] v.tag = "Bool" -> BoolToStr(v.b)
      [] v.tag = "Array" ->
            <<"[">> \o Join([i \in 1..Len(v.items) |-> template_value_to_string(v.items[i])],
                            <<",", " ">>) \o <<"]">>
      [] OTHER ->
            LET ks == SetToSeq(DOMAIN v.fields)
            IN  <<"{">> \o Join([i \in 1..Len(ks) |->
                                   ks[i] \o <<":", " ">> \o template_value_to_string(v.fields[ks[i]])],
                                <<",", " ">>) \o <<"}">>

\* the closures the model registers as helpers
call_helper(id, args) ==
    CASE id = "first" -> Ok(IF args = <<>> THEN VString(<<>>) ELSE args[1])
      [] id = "count" -> Ok(VNumber(Len(args)))
      [] OTHER -> Err("Runtime")

\* process_helper_call: the helper's result as text
helper_called(called) ==
    IF ~IsOk(called) THEN called
    ELSE Ok([some |-> TRUE, s |-> template_value_to_string(called.val)])

\* process_helper_call: the call of the helper on the parsed arguments
helper_with_args(helper_id, args) ==
    IF ~IsOk(args) THEN args ELSE helper_called(call_helper(helper_id, args.val))

\* process_helper_call: the expression split at its parentheses
helper_call_at(helpers, expression, ctx, paren_pos, func_name, close_paren) ==
    IF paren_pos = -1 \/ func_name \notin DOMAIN helpers
    THEN Ok([some |-> FALSE, s |-> <<>>])
    ELSE IF close_paren = -1 THEN Err("Parse")
    ELSE IF ~SliceOk(expression, paren_pos + 1, close_paren) THEN Panic
    ELSE helper_with_args(helpers[func_name],
             parse_helper_args(Slice(expression, paren_pos + 1, close_paren), ctx))

\* TemplateEngine::process_helper_call: Ok([some, s]) or Err or Panic
process_helper_call(helpers, expression, ctx) ==
    helper_call_at(helpers, expression, ctx, Find(expression, <<"(">>),
                   Trim(Slice(expression, 0, Find(expression, <<"(">>))),
                   RFind(expression, <<")">>))

\* ------------------------------------------------- variable substitution
RECURSIVE raw_variables_loop(_, _, _, _)
\* the first loop of process_variables: the tag found at start
raw_variable_at(E, result, ctx, fuel, start, end) ==
    IF start = -1 THEN Ok(result)
    ELSE IF fuel = 0 THEN Hang
    ELSE IF end = -1 THEN Err("Parse")
    ELSE raw_variables_loop(E,
             ReplaceRange(result, start, start + end + 2,
                 get_variable_value(E.custom_filters,
                                    Trim(Slice(result, start + 4, start + end)), ctx)),
             ctx, fuel - 1)

\* the first loop of process_variables: raw variables {{& name}}
raw_variables_loop(E, result, ctx, fuel) ==
    raw_variable_at(E, result, ctx, fuel, Find(result, RAW_OPEN),
                    FindFrom(result, Find(result, RAW_OPEN), CLOSE))

\* the directives the second loop of process_variables skips
IsSkippedDirective(result, start) ==
    \/ StartsWithAt(result, start, IF_OPEN)
    \/ StartsWithAt(result, start, FOR_OPEN)
    \/ StartsWithAt(result, start, INCLUDE_OPEN)
    \/ StartsWithAt(result, start, COMMENT_OPEN)
    \/ StartsWithAt(result, start, SLASH_OPEN)

\* should_escape of process_variables
should_escape(var_name) ==
    IF Contains(var_name, <<"|">>) THEN ~uses_html_producing_filter(var_name) ELSE TRUE

\* final_value of process_variables
final_value(value, escape) == IF escape THEN html_escape(value) ELSE value

\* the text process_variables puts in the place of {{var_name}}
substituted_value(E, var_name, ctx) ==
    final_value(get_variable_value(E.custom_filters, var_name, ctx), should_escape(var_name))

RECURSIVE escaped_variables_loop(_, _, _, _)
\* the second loop of process_variables: the replacement of the tag
escaped_variable_replace(E, result, ctx, fuel, start, end, var_name, helper_result) ==
    IF ~IsOk(helper_result) THEN helper_result
    ELSE IF helper_result.val.some
    THEN escaped_variables_loop(E,
             ReplaceRange(result, start, start + end + 2, helper_result.val.s), ctx, fuel - 1)
    ELSE escaped_variables_loop(E,
             ReplaceRange(result, start, start + end + 2, substituted_value(E, var_name, ctx)),
             ctx, fuel - 1)

\* the second loop of process_variables: the helper call tried first
escaped_variable_named(E, result, ctx, fuel, start, end, var_name) ==
    escaped_variable_replace(E, result, ctx, fuel, start, end, var_name,
                             process_helper_call(E.helpers, var_name, ctx))

\* the second loop of process_variables: the tag found at start
escaped_variable_at(E, result, ctx, fuel, start, end) ==
    IF start = -1 THEN Ok(result)
    ELSE IF fuel = 0 THEN Hang
    ELSE IF IsSkippedDirective(result, start)
    THEN IF end # -1
         THEN escaped_variables_loop(E,
                  Slice(result, 0, start) \o SliceFrom(result, start + end + 2), ctx, fuel - 1)
         ELSE Ok(result)
    ELSE IF end = -1 THEN Err("Parse")
    ELSE escaped_variable_named(E, result, ctx, fuel, start, end,
                                Trim(Slice(result, start + 2, start + end)))

\* the second loop of process_variables: escaped variables and helper calls
escaped_variables_loop(E, result, ctx, fuel) ==
    escaped_variable_at(E, result, ctx, fuel, Find(result, OPEN),
                        FindFrom(result, Find(result, OPEN), CLOSE))

\* process_variables: the second loop on the result of the first
variables_after_raw(raw, E, ctx) ==
    IF ~IsOk(raw) THEN raw ELSE escaped_variables_loop(E, raw.val, ctx, MaxIter)

\* TemplateEngine::process_variables
process_variables(E, template, ctx) ==
    variables_after_raw(raw_variables_loop(E, template, ctx, MaxIter), E, ctx)

RECURSIVE process_comments(_)
\* process_comments: the comment found at start
comment_at(template, start, end) ==
    IF start = -1 \/ end = -1 THEN template
    ELSE process_comments(ReplaceRange(template, start, start + end + 2, <<>>))

\* TemplateEngine::process_comments
process_comments(template) ==
    comment_at(template, Find(template, COMMENT_OPEN),
               FindFrom(template, Find(template, COMMENT_OPEN), CLOSE))

\* ------------------------------------------------------------ conditions
Ascii == <<" ", "!", "\"", "#", "$", "%", "&", "'", "(", ")", "*", "+", ",", "-", ".", "/",
           "0", "1", "2", "3", "4", "5", "6", "7", "8", "9", ":", ";", "<", "=", ">", "?", "@",
           "A", "B", "C", "D", "E", "F", "G", "H", "I", "J", "K", "L", "M",
           "N", "O", "P", "Q", "R", "S", "T", "U", "V", "W", "X", "Y", "Z",
           "[", "\\", "]", "^", "_", "BACKTICK",
           "a", "b", "c", "d", "e", "f", "g", "h", "i", "j", "k", "l", "m",
           "n", "o", "p", "q", "r", "s", "t", "u", "v", "w", "x", "y", "z",
           "{", "|", "}", "~">>

\* the position of a character in ASCII order (control characters first)
CharCode(c) == IF c \in {"\t", "\n"} THEN 0 ELSE CHOOSE i \in 1..Len(Ascii) : Ascii[i] = c

\* a < b on Rust strings (byte-wise lexicographic)
RECURSIVE StrLess(_, _)
StrLess(a, b) ==
    IF b = <<>> THEN FALSE
    ELSE IF a = <<>> THEN TRUE
    ELSE IF Head(a) = Head(b) THEN StrLess(Tail(a), Tail(b))
    ELSE CharCode(Head(a)) < CharCode(Head(b))

\* a truthiness that reads the text "0" as false
is_truthy_numeric(value) ==
    CASE value.tag = "Bool" -> value.b
      [] value.tag = "String" -> value.s # <<>> /\ value.s # <<"0">>
      [] value.tag = "Number" -> value.n # 0
      [] value.tag = "Array" -> value.items # <<>>
      [] OTHER -> DOMAIN value.fields # {}

\* TemplateEngine::is_truthy
is_truthy(value) ==
    CASE value.tag = "Bool" -> value.b
      [] value.tag = "String" -> value.s # <<>>
      [] value.tag = "Number" -> value.n # 0
      [] value.tag = "Array" -> value.items # <<>>
      [] OTHER -> DOMAIN value.fields # {}

\* TemplateEngine::value_to_string
value_to_string(value) ==
    CASE value.tag = "String" -> value.s
      [] value.tag = "Number" -> IntToStr(value.n)
      [] value.tag = "Bool" -> BoolToStr(value.b)
      [] value.tag = "Array" -> <<"[", "A", "r", "r", "a", "y", "]">>
      [] OTHER -> <<"[", "O", "b", "j", "e", "c", "t", "]">>

\* TemplateEngine::values_equal
values_equal(left, right) ==
    IF left.tag = right.tag
    THEN CASE left.tag = "String" -> left.s = right.s
           [] left.tag = "Number" -> left.n = right.n
           [] left.tag = "Bool" -> left.b = right.b
           [] left.tag = "Array" -> Len(left.items) = Len(right.items)
           [] OTHER -> Cardinality(DOMAIN left.fields) = Cardinality(DOMAIN right.fields)
    ELSE value_to_string(left) = value_to_string(right)

\* compare_values: the comparison of the two strings
compare_strings(a, b) == IF StrLess(a, b) THEN -1 ELSE IF StrLess(b, a) THEN 1 ELSE 0

\* TemplateEngine::compare_values
compare_values(left, right) ==
    IF left.tag = "Number" /\ right.tag = "Number"
    THEN IF left.n < right.n THEN -1 ELSE IF left.n > right.n THEN 1 ELSE 0
    ELSE compare_strings(value_to_string(left), value_to_string(right))

\* TemplateEngine::get_condition_value: Ok(value) or Panic
get_condition_value(expr, ctx) == literal_or_variable(Trim(expr), ctx, VString(<<>>))

ComparisonOperators == <<<<"=", "=">>, <<"!", "=">>, <<"<", "=">>, <<">", "=">>, <<"<">>, <<">">>>>

apply_operator(op, l, r) ==
    CASE op = <<"=", "=">> -> values_equal(l, r)
      [] op = <<"!", "=">> -> ~values_equal(l, r)
      [] op = <<"<">> -> compare_values(l, r) < 0
      [] op = <<">">> -> compare_values(l, r) > 0
      [] op = <<"<", "=">> -> compare_values(l, r) <= 0
      [] OTHER -> compare_values(l, r) >= 0

\* evaluate_comparison: the operator applied to the two operands
comparison_values(op, left_val, right_val) ==
    IF ~IsOk(left_val) THEN left_val
    ELSE IF ~IsOk(right_val) THEN right_val
    ELSE Ok([some |-> TRUE, b |-> apply_operator(op, left_val.val, right_val.val)])

\* evaluate_comparison: the condition split at op_pos
comparison_at(condition, ctx, op, op_pos) ==
    comparison_values(op, get_condition_value(Slice(condition, 0, op_pos), ctx),
                      get_condition_value(SliceFrom(condition, op_pos + Len(op)), ctx))

\* evaluate_comparison: the operators that occur in the condition
present_operators(condition) ==
    {i \in 1..Len(ComparisonOperators) : Contains(condition, ComparisonOperators[i])}

\* evaluate_comparison: the first operator of the list that occurs
comparison_among(condition, ctx, present) ==
    IF present = {} THEN Ok([some |-> FALSE, b |-> FALSE])
    ELSE comparison_at(condition, ctx, ComparisonOperators[SetMin(present)],
                       Find(condition, ComparisonOperators[SetMin(present)]))

\* TemplateEngine::evaluate_comparison: Ok([some, b]) or Panic
evaluate_comparison(condition, ctx) ==
    comparison_among(condition, ctx, present_operators(condition))

\* evaluate_nested_condition: the truthiness of the value the walk ends on
walked_truthy(w) == w.found /\ is_truthy(w.v)

\* TemplateEngine::evaluate_nested_condition
evaluate_nested_condition(cur, parts) == walked_truthy(walk_path(cur, parts))

\* evaluate_condition: a dotted condition
condition_nested(parts, ctx) ==
    Ok(HasVar(ctx, parts[1]) /\ evaluate_nested_condition(ctx[parts[1]], Tail(parts)))

\* evaluate_condition: the comparison if there is one, else the truthiness
condition_truthiness(cmp, condition, ctx) ==
    IF ~IsOk(cmp) THEN cmp
    ELSE IF cmp.val.some THEN Ok(cmp.val.b)
    ELSE IF Contains(condition, <<".">>) THEN condition_nested(Split(condition, "."), ctx)
    ELSE Ok(HasVar(ctx, condition) /\ is_truthy(ctx[condition]))

\* evaluate_condition on the trimmed condition
evaluate_trimmed(condition, ctx) ==
    condition_truthiness(evaluate_comparison(condition, ctx), condition, ctx)

\* TemplateEngine::evaluate_condition: Ok(BOOLEAN) or Panic
evaluate_condition(condition_in, ctx) == evaluate_trimmed(Trim(condition_in), ctx)

RECURSIVE process_conditionals(_, _)
\* process_conditionals: replace_range with the block or with nothing
conditional_replace(template, ctx, if_start, block_start, block_end, should_include) ==
    IF ~IsOk(should_include) THEN should_include
    ELSE process_conditionals(
             ReplaceRange(template, if_start, block_start + block_end + 7,
                          IF should_include.val
                          THEN Slice(template, block_start, block_start + block_end)
                          ELSE <<>>),
             ctx)

\* process_conditionals: the block up to the first {{/if}}
conditional_block(template, ctx, if_start, if_end, block_start, block_end) ==
    IF block_end = -1 THEN Err("Parse")
    ELSE conditional_replace(template, ctx, if_start, block_start, block_end,
             evaluate_condition(Trim(Slice(template, if_start + 5, if_start + if_end)), ctx))

\* process_conditionals: the tag found at if_start
conditional_at(template, ctx, if_start, if_end) ==
    IF if_start = -1 THEN Ok(template)
    ELSE IF if_end = -1 THEN Err("Parse")
    ELSE conditional_block(template, ctx, if_start, if_end, if_start + if_end + 2,
                           FindFrom(template, if_start + if_end + 2, IF_END))

\* TemplateEngine::process_conditionals
process_conditionals(template, ctx) ==
    conditional_at(template, ctx, Find(template, IF_OPEN),
                   FindFrom(template, Find(template, IF_OPEN), CLOSE))

\* ------------------------------------------------------- template loader
\* a call that may change the engine returns [e |-> engine, r |-> result]
ER(E, r) == [e |-> E, r |-> r]

\* HashMap::insert
MapPut(m, k, v) == [x \in DOMAIN m \cup {k} |-> IF x = k THEN v ELSE m[x]]

DOTDOT == <<".", ".">>

\* the textual checks of validate_template_path
IsDriveLetterPath(name) == Len(name) >= 3 /\ name[2] = ":"

\* TemplateEngine::validate_template_path; F: the file system,
\* [dir_ok |-> template_dir can be canonicalized,
\*  files |-> name -> [content, escapes]]; escapes: the path resolves
\* (through a link) to a place outside the directory
validate_template_path(F, name) ==
    IF Contains(name, DOTDOT) THEN Err("Security")
    ELSE IF StartsWith(name, <<"/">>) \/ StartsWith(name, <<"\\">>) THEN Err("Security")
    ELSE IF IsDriveLetterPath(name) THEN Err("Security")
    ELSE IF ~F.dir_ok THEN Err("Security")
    ELSE IF name \in DOMAIN F.files /\ F.files[name].escapes THEN Err("Security")
    ELSE Ok(<<>>)

\* fs::read_to_string(template_dir.join(name)) mapped to a Template error
read_template_file(F, name) ==
    IF F.dir_ok /\ name \in DOMAIN F.files THEN Ok(F.files[name].content) ELSE Err("Template")

\* load_template: self.cache.insert(name, content.clone())
cache_store(E, name, content) ==
    IF ~IsOk(content) THEN ER(E, content)
    ELSE ER([E EXCEPT !.cache = MapPut(E.cache, name, content.val)], content)

\* load_template: the read after validate_template_path
load_validated(E, F, name, valid) ==
    IF ~IsOk(valid) THEN ER(E, valid)
    ELSE cache_store([E EXCEPT !.reads = Append(@, name)], name, read_template_file(F, name))

\* load_template without the cache lookup: every call reads the file
load_template_reread(E, F, name) ==
    load_validated(E, F, name, validate_template_path(F, name))

\* TemplateEngine::load_template
load_template(E, F, name) ==
    IF name \in DOMAIN E.cache THEN ER(E, Ok(E.cache[name]))
    ELSE load_validated(E, F, name, validate_template_path(F, name))

\* TemplateEngine::load_template_mmap: the same steps, on the same cache
load_template_mmap(E, F, name) ==
    IF name \in DOMAIN E.cache THEN ER(E, Ok(E.cache[name]))
    ELSE load_validated(E, F, name, validate_template_path(F, name))

RECURSIVE process_includes(_, _, _, _)
\* process_includes: replace_range with the processed include
include_replace(inner, F, template, fuel, start, end) ==
    IF ~IsOk(inner.r) THEN inner
    ELSE process_includes(inner.e, F,
                          ReplaceRange(template, start, start + end + 2, inner.r.val), fuel - 1)

\* process_includes: the recursive call on the loaded content
include_loaded(loaded, F, template, fuel, start, end) ==
    IF ~IsOk(loaded.r) THEN loaded
    ELSE include_replace(process_includes(loaded.e, F, loaded.r.val, fuel - 1),
                         F, template, fuel, start, end)

\* process_includes: the tag found at start
include_at(E, F, template, fuel, start, end) ==
    IF start = -1 THEN ER(E, Ok(template))
    ELSE IF fuel = 0 THEN ER(E, Hang)
    ELSE IF end = -1 THEN ER(E, Err("Parse"))
    ELSE include_loaded(
             load_template(E, F, TrimQuotes(Trim(Slice(template, start + 10, start + end)))),
             F, template, fuel, start, end)

\* TemplateEngine::process_includes; fuel bounds the loop and the recursion
process_includes(E, F, template, fuel) ==
    include_at(E, F, template, fuel, Find(template, INCLUDE_OPEN),
               FindFrom(template, Find(template, INCLUDE_OPEN), CLOSE))

\* ----------------------------------------------------------------- macros
\* parse_macro_header: a parameter without its default value
param_name_of(param, eq_pos) ==
    IF eq_pos # -1 THEN Trim(Slice(param, 0, eq_pos)) ELSE param

param_name(p) == param_name_of(Trim(p), Find(Trim(p), <<"=">>))

param_list(pieces) == [i \in 1..Len(pieces) |-> param_name(pieces[i])]

\* parse_macro_header: the parameters between the parentheses
param_names(params_content) ==
    IF Trim(params_content) = <<>> THEN <<>> ELSE param_list(Split(params_content, ","))

\* parse_macro_header: the header split at its last )
macro_header_params(header, paren_pos, params_str, close_paren) ==
    IF close_paren = -1 THEN Err("Parse")
    ELSE Ok([name |-> Trim(Slice(header, 0, paren_pos)),
             parameters |-> param_names(Slice(params_str, 0, close_paren))])

macro_header_close(header, paren_pos, params_str) ==
    macro_header_params(header, paren_pos, params_str, RFind(params_str, <<")">>))

\* parse_macro_header: the header split at its first (
macro_header_at(header, paren_pos) ==
    IF paren_pos = -1 THEN Ok([name |-> Trim(header), parameters |-> <<>>])
    ELSE macro_header_close(header, paren_pos, SliceFrom(header, paren_pos + 1))

\* TemplateEngine::parse_macro_header: Ok([name, parameters]) or Err
parse_macro_header(header) == macro_header_at(header, Find(header, <<"(">>))



RECURSIVE extract_macro_definitions(_, _)
\* extract_macro_definitions: self.macros.insert(name, definition)
macro_store(E, parsed, macro_body) ==
    [E EXCEPT !.macros = MapPut(E.macros, parsed.val.name,
                                [parameters |-> parsed.val.parameters, body |-> macro_body])]

\* extract_macro_definitions: the definition stored and cut out
macro_definition_parsed(E, template, macro_start, body_start, body_end, parsed) ==
    IF ~IsOk(parsed) THEN ER(E, parsed)
    ELSE extract_macro_definitions(
             macro_store(E, parsed, Trim(Slice(template, body_start, body_start + body_end))),
             ReplaceRange(template, macro_start, body_start + body_end + 10, <<>>))

\* extract_macro_definitions: the body up to {{/macro}}
macro_definition_body(E, template, macro_start, header_end, body_start, body_end) ==
    IF body_end = -1 THEN ER(E, Err("Parse"))
    ELSE macro_definition_parsed(E, template, macro_start, body_start, body_end,
             parse_macro_header(Slice(template, macro_start + 8, macro_start + header_end)))

\* extract_macro_definitions: the tag found at macro_start
macro_definition_at(E, template, macro_start, header_end) ==
    IF macro_start = -1 THEN ER(E, Ok(template))
    ELSE IF header_end = -1 THEN ER(E, Err("Parse"))
    ELSE macro_definition_body(E, template, macro_start, header_end,
                               macro_start + header_end + 2,
                               FindFrom(template, macro_start + header_end + 2, MACRO_END))

\* TemplateEngine::extract_macro_definitions: the table keeps the
\* definitions stored before an error
extract_macro_definitions(E, template) ==
    macro_definition_at(E, template, Find(template, MACRO_OPEN),
                        FindFrom(template, Find(template, MACRO_OPEN), CLOSE))

\* TemplateEngine::variable_exists_in_context
variable_exists_in_context(variable_name, ctx) ==
    IF Contains(variable_name, <<".">>) THEN HasVar(ctx, Split(variable_name, ".")[1])
    ELSE HasVar(ctx, variable_name)

StartsWithQuote(s) == StartsWith(s, <<"\"">>) \/ StartsWith(s, <<"'">>)

arg_value_at(arg, eq_pos) ==
    IF eq_pos # -1 THEN Trim(SliceFrom(arg, eq_pos + 1)) ELSE Trim(arg)

\* the value expression of a macro-call argument (after a `=` if named)
arg_value_str(arg) == arg_value_at(arg, Find(arg, <<"=">>))

\* can_resolve_macro_args: every argument is a literal or a bound variable
args_resolvable(args, ctx) ==
    \A i \in 1..Len(args) :
        StartsWithQuote(arg_value_str(args[i]))
        \/ variable_exists_in_context(arg_value_str(args[i]), ctx)

can_resolve_args_str(args_str, ctx) ==
    IF Trim(args_str) = <<>> THEN Ok(TRUE)
    ELSE Ok(args_resolvable(parse_argument_list(args_str), ctx))

\* can_resolve_macro_args: the call split at its parentheses
can_resolve_between(call_content, ctx, paren_start, paren_end) ==
    IF paren_start = -1 \/ paren_end = -1 THEN Err("Parse")
    ELSE IF ~SliceOk(call_content, paren_start + 1, paren_end) THEN Panic
    ELSE can_resolve_args_str(Slice(call_content, paren_start + 1, paren_end), ctx)

\* TemplateEngine::can_resolve_macro_args: Ok(BOOLEAN), Err or Panic
can_resolve_macro_args(call_content, ctx) ==
    can_resolve_between(call_content, ctx, Find(call_content, <<"(">>),
                        RFind(call_content, <<")">>))

\* TemplateEngine::resolve_variable_from_context
resolve_variable_from_context(variable_name, ctx) == lookup_value(variable_name, ctx).v

RECURSIVE bind_macro_args(_, _, _, _)
\* parse_macro_call_args_with_context: the value of one argument
macro_arg_value(vs, ctx) ==
    IF StartsWithQuote(vs) THEN VString(TrimQuotes(vs))
    ELSE resolve_variable_from_context(vs, ctx)

\* parse_macro_call_args_with_context: one argument, named or positional
bind_macro_arg(args, ctx, positional_index, args_map, arg, eq_pos, value) ==
    IF eq_pos # -1
    THEN bind_macro_args(Tail(args), ctx, positional_index,
                         MapPut(args_map, Trim(Slice(arg, 0, eq_pos)), value))
    ELSE bind_macro_args(Tail(args), ctx, positional_index + 1,
                         MapPut(args_map, IntToStr(positional_index), value))

\* the args_map of parse_macro_call_args_with_context built left to right
bind_macro_args(args, ctx, positional_index, args_map) ==
    IF args = <<>> THEN args_map
    ELSE bind_macro_arg(args, ctx, positional_index, args_map, Head(args),
                        Find(Head(args), <<"=">>),
                        macro_arg_value(arg_value_str(Head(args)), ctx))

macro_args_of_str(args_str, ctx) ==
    IF Trim(args_str) = <<>> THEN Ok(EmptyMap)
    ELSE Ok(bind_macro_args(parse_argument_list(args_str), ctx, 0, EmptyMap))

\* parse_macro_call_args_with_context: the call split at its parentheses
macro_args_between(call_content, ctx, paren_start, paren_end) ==
    IF paren_start = -1 \/ paren_end = -1 THEN Err("Parse")
    ELSE IF ~SliceOk(call_content, paren_start + 1, paren_end) THEN Panic
    ELSE macro_args_of_str(Slice(call_content, paren_start + 1, paren_end), ctx)

\* TemplateEngine::parse_macro_call_args_with_context (called after
\* can_resolve_macro_args accepted the same call_content)
parse_macro_call_args_with_context(call_content, ctx) ==
    macro_args_between(call_content, ctx, Find(call_content, <<"(">>),
                       RFind(call_content, <<")">>))

\* expand_macro_with_values: the argument bound to a parameter, by name,
\* else by position, else the empty string
macro_param_value(args, param, i) ==
    IF param \in DOMAIN args THEN args[param]
    ELSE IF IntToStr(i - 1) \in DOMAIN args THEN args[IntToStr(i - 1)]
    ELSE VString(<<>>)

\* the macro_context of expand_macro_with_values
RECURSIVE macro_context(_, _, _, _)
macro_context(parameters, args, i, ctx) ==
    IF i > Len(parameters) THEN ctx
    ELSE macro_context(parameters, args, i + 1,
                       ctx_set(ctx, parameters[i], macro_param_value(args, parameters[i], i)))

\* ------------------------------------------------------------------ loops
\* TemplateEngine::find_matching_for_end: offset of the matching {{/for}},
\* -1 for the Parse error
RECURSIVE find_matching_for_end_from(_, _, _)
\* find_matching_for_end: a {{/for}} found end_pos after pos
for_end_close(content, pos, depth, end_pos) ==
    IF depth - 1 = 0 THEN pos + end_pos
    ELSE find_matching_for_end_from(content, pos + end_pos + 8, depth - 1)

\* find_matching_for_end: the next opening and closing tags after pos
for_end_scan(content, pos, depth, for_pos, end_before, end_for_pos) ==
    IF for_pos # -1
    THEN IF end_before # -1 THEN for_end_close(content, pos, depth, end_before)
         ELSE find_matching_for_end_from(content, pos + for_pos + 6, depth + 1)
    ELSE IF end_for_pos # -1 THEN for_end_close(content, pos, depth, end_for_pos)
    ELSE -1

find_matching_for_end_from(content, pos, depth) ==
    IF ~(pos < Len(content) /\ depth > 0) THEN -1
    ELSE for_end_scan(content, pos, depth, FindFrom(content, pos, FOR_OPEN),
                      Find(Slice(content, pos, pos + FindFrom(content, pos, FOR_OPEN)), FOR_END),
                      FindFrom(content, pos, FOR_END))

find_matching_for_end(content) == find_matching_for_end_from(content, 0, 1)

\* TemplateEngine::get_translation
get_translation(E, key) ==
    IF E.current_locale # <<>>
       /\ E.current_locale[1] \in DOMAIN E.translations
       /\ key \in DOMAIN E.translations[E.current_locale[1]]
    THEN E.translations[E.current_locale[1]][key]
    ELSE key

RECURSIVE process_pluralization(_, _)
\* process_pluralization: context.get_number(count_var).unwrap_or(0)
plural_count(ctx, name) ==
    IF HasVar(ctx, name) /\ ctx[name].tag = "Number" THEN ctx[name].n ELSE 0

\* process_pluralization: chosen_form
plural_form(parts, count) ==
    IF count = 1 THEN TrimQuotes(parts[2]) ELSE TrimQuotes(parts[3])

\* process_pluralization: the three parts of the directive
plural_parts(template, ctx, start, end, parts) ==
    IF Len(parts) # 3 THEN Err("Parse")
    ELSE process_pluralization(
             ReplaceRange(template, start, start + end + 2,
                          plural_form(parts, plural_count(ctx, parts[1]))),
             ctx)

\* process_pluralization: the tag found at start
plural_at(template, ctx, start, end) ==
    IF start = -1 THEN Ok(template)
    ELSE IF end = -1 THEN Err("Parse")
    ELSE plural_parts(template, ctx, start, end,
                      SplitWhitespace(Slice(template, start + 9, start + end)))

\* TemplateEngine::process_pluralization
process_pluralization(template, ctx) ==
    plural_at(template, ctx, Find(template, PLURAL_OPEN),
              FindFrom(template, Find(template, PLURAL_OPEN), CLOSE))

\* the iteration order of the macro table: the engine's hash order over the
\* model's macro names, then any other name
macro_iteration(E) ==
    SelectSeq(E.hash_order, LAMBDA n : n \in DOMAIN E.macros)
    \o SetToSeq({n \in DOMAIN E.macros : \A i \in 1..Len(E.hash_order) : E.hash_order[i] # n})

RECURSIVE render_string_at(_, _, _, _, _)
RECURSIVE macro_calls_of(_, _, _, _, _, _, _, _)
RECURSIVE macro_calls_over(_, _, _, _, _, _, _)
RECURSIVE process_loops_at(_, _, _, _, _, _)
RECURSIVE render_loop_items(_, _, _, _, _, _, _, _)
RECURSIVE process_translations_at(_, _, _, _, _, _)

\* TemplateEngine::expand_macro_with_values
expand_macro_with_values(E, F, macro_def, args, depth) ==
    render_string_at(E, F, macro_def.body,
                     macro_context(macro_def.parameters, args, 1, EmptyMap), depth)

\* process_macro_calls_with_context: result.replace_range(start_pos..end_pos,
\* &expanded) and the next turn of the while loop
macro_call_replace(expanded, F, macro_name, macro_def, result, ctx, fuel, depth, start_pos, end_pos) ==
    IF ~IsOk(expanded.r) THEN expanded
    ELSE macro_calls_of(expanded.e, F, macro_name, macro_def,
                        ReplaceRange(result, start_pos, end_pos, expanded.r.val),
                        ctx, fuel - 1, depth)

\* process_macro_calls_with_context: the parsed arguments, then the expansion
macro_call_expand(args, E, F, macro_name, macro_def, result, ctx, fuel, depth, start_pos, end_pos) ==
    IF ~IsOk(args) THEN ER(E, args)
    ELSE macro_call_replace(expand_macro_with_values(E, F, macro_def, args.val, depth),
                            F, macro_name, macro_def, result, ctx, fuel, depth,
                            start_pos, end_pos)

\* process_macro_calls_with_context: the can_resolve_macro_args test (break
\* when an argument is not resolvable yet)
macro_call_check(can, E, F, macro_name, macro_def, result, ctx, fuel, depth, start_pos, end_pos) ==
    IF ~IsOk(can) THEN ER(E, can)
    ELSE IF ~can.val THEN ER(E, Ok(result))
    ELSE macro_call_expand(
             parse_macro_call_args_with_context(Slice(result, start_pos + 2, end_pos - 2), ctx),
             E, F, macro_name, macro_def, result, ctx, fuel, depth, start_pos, end_pos)

\* process_macro_calls_with_context: the call found at call_start
macro_call_at(call_start, start_pos, end_rel, E, F, macro_name, macro_def, result, ctx, fuel, depth) ==
    IF call_start = -1 THEN ER(E, Ok(result))
    ELSE IF fuel = 0 THEN ER(E, Hang)
    ELSE IF start_pos = -1 THEN ER(E, Err("Parse"))
    ELSE IF end_rel = -1 THEN ER(E, Err("Parse"))
    ELSE macro_call_check(
             can_resolve_macro_args(Slice(result, start_pos + 2, end_rel + call_start), ctx),
             E, F, macro_name, macro_def, result, ctx, fuel, depth,
             start_pos, end_rel + call_start + 2)

\* the while loop of process_macro_calls_with_context for one macro
macro_calls_of(E, F, macro_name, macro_def, result, ctx, fuel, depth) ==
    macro_call_at(Find(result, macro_name \o <<"(">>),
                  RFind(Slice(result, 0, Find(result, macro_name \o <<"(">>)), OPEN),
                  FindFrom(result, Find(result, macro_name \o <<"(">>), CLOSE),
                  E, F, macro_name, macro_def, result, ctx, fuel, depth)

\* the for loop of process_macro_calls_with_context: after one macro
macro_calls_next(one, F, names, macros_clone, ctx, depth) ==
    IF ~IsOk(one.r) THEN one
    ELSE macro_calls_over(one.e, F, Tail(names), macros_clone, one.r.val, ctx, depth)

\* the for loop of process_macro_calls_with_context over macros_clone
macro_calls_over(E, F, names, macros_clone, result, ctx, depth) ==
    IF names = <<>> THEN ER(E, Ok(result))
    ELSE macro_calls_next(macro_calls_of(E, F, Head(names), macros_clone[Head(names)],
                                         result, ctx, MaxIter, depth),
                          F, names, macros_clone, ctx, depth)

\* TemplateEngine::process_macro_calls_with_context
process_macro_calls_with_context(E, F, template, ctx, depth) ==
    macro_calls_over(E, F, macro_iteration(E), E.macros, template, ctx, depth)

\* process_macros_with_context: the second pass, after the definitions
macros_second_pass(extracted, F, ctx, depth) ==
    IF ~IsOk(extracted.r) THEN extracted
    ELSE process_macro_calls_with_context(extracted.e, F, extracted.r.val, ctx, depth)

\* TemplateEngine::process_macros_with_context
process_macros_with_context(E, F, template, ctx, depth) ==
    macros_second_pass(extract_macro_definitions(E, template), F, ctx, depth)

\* render_loop: result.push_str(&processed_block), then the later items
loop_item_push(text, rest) ==
    IF ~IsOk(rest.r) THEN rest ELSE ER(rest.e, Ok(text \o rest.r.val))

\* render_loop: after process_variables on the block
loop_item_variables(v, E, F, item_var, items, i, block, ctx, depth) ==
    IF ~IsOk(v) THEN ER(E, v)
    ELSE loop_item_push(v.val, render_loop_items(E, F, item_var, items, i + 1, block, ctx, depth))

\* render_loop: after process_conditionals on the block
loop_item_conditionals(c, loop_context, E, F, item_var, items, i, block, ctx, depth) ==
    IF ~IsOk(c) THEN ER(E, c)
    ELSE loop_item_variables(process_variables(E, c.val, loop_context),
                             E, F, item_var, items, i, block, ctx, depth)

\* render_loop: after process_loops on the block
loop_item_loops(l, loop_context, F, item_var, items, i, block, ctx, depth) ==
    IF ~IsOk(l.r) THEN l
    ELSE loop_item_conditionals(process_conditionals(l.r.val, loop_context), loop_context,
                                l.e, F, item_var, items, i, block, ctx, depth)

\* render_loop: after process_macro_calls_with_context on the block
loop_item_macros(m, loop_context, F, item_var, items, i, block, ctx, depth) ==
    IF ~IsOk(m.r) THEN m
    ELSE loop_item_loops(process_loops_at(m.e, F, m.r.val, loop_context, MaxIter, depth),
                         loop_context, F, item_var, items, i, block, ctx, depth)

\* the body of render_loop for the items from index i on
render_loop_items(E, F, item_var, items, i, block, ctx, depth) ==
    IF i > Len(items) THEN ER(E, Ok(<<>>))
    ELSE loop_item_macros(
             process_macro_calls_with_context(E, F, block, ctx_set(ctx, item_var, items[i]),
                                              depth),
             ctx_set(ctx, item_var, items[i]), F, item_var, items, i, block, ctx, depth)

\* TemplateEngine::render_loop
render_loop(E, F, item_var, array_var, block, ctx, depth) ==
    IF HasVar(ctx, array_var) /\ ctx[array_var].tag = "Array"
    THEN render_loop_items(E, F, item_var, ctx[array_var].items, 1, block, ctx, depth)
    ELSE IF Contains(array_var, <<"(">>) /\ Contains(array_var, <<")">>)
    THEN ER(E, Err("Template"))
    ELSE ER(E, Ok(<<>>))

\* process_loops: result.replace_range(for_start..block_start + block_end + 8,
\* &replacement) and the next turn of the while loop
loop_replace(replacement, F, template, ctx, fuel, depth, for_start, loop_end) ==
    IF ~IsOk(replacement.r) THEN replacement
    ELSE process_loops_at(replacement.e, F,
                          ReplaceRange(template, for_start, loop_end, replacement.r.val),
                          ctx, fuel - 1, depth)

\* process_loops: the block of the loop that starts at for_start
loop_block(parts, block_start, block_end, E, F, template, ctx, fuel, depth, for_start) ==
    IF Len(parts) # 2 THEN ER(E, Err("Parse"))
    ELSE IF block_end = -1 THEN ER(E, Err("Parse"))
    ELSE loop_replace(render_loop(E, F, Trim(parts[1]), Trim(parts[2]),
                                  Slice(template, block_start, block_start + block_end),
                                  ctx, depth),
                      F, template, ctx, fuel, depth, for_start, block_start + block_end + 8)

\* process_loops: the directive found at for_start
loop_directive(for_start, for_end, E, F, template, ctx, fuel, depth) ==
    IF for_start = -1 THEN ER(E, Ok(template))
    ELSE IF fuel = 0 THEN ER(E, Hang)
    ELSE IF for_end = -1 THEN ER(E, Err("Parse"))
    ELSE loop_block(SplitStr(Trim(Slice(template, for_start + 6, for_start + for_end)), IN_SEP),
                    for_start + for_end + 2,
                    find_matching_for_end(SliceFrom(template, for_start + for_end + 2)),
                    E, F, template, ctx, fuel, depth, for_start)

\* TemplateEngine::process_loops
process_loops_at(E, F, template, ctx, fuel, depth) ==
    loop_directive(Find(template, FOR_OPEN),
                   FindFrom(template, Find(template, FOR_OPEN), CLOSE),
                   E, F, template, ctx, fuel, depth)

\* process_translations: result.replace_range(start..start + end + 2,
\* &processed_translation) and the next turn of the while loop
translation_replace(processed, F, template, ctx, fuel, depth, start, end) ==
    IF ~IsOk(processed.r) THEN processed
    ELSE process_translations_at(processed.e, F,
                                 ReplaceRange(template, start, start + end + 2, processed.r.val),
                                 ctx, fuel - 1, depth)

\* process_translations: the directive found at start
translation_directive(start, end, E, F, template, ctx, fuel, depth) ==
    IF start = -1 THEN ER(E, Ok(template))
    ELSE IF fuel = 0 THEN ER(E, Hang)
    ELSE IF end = -1 THEN ER(E, Err("Parse"))
    ELSE translation_replace(
             render_string_at(E, F,
                 get_translation(E, TrimQuotes(Trim(Slice(template, start + 4, start + end)))),
                 ctx, depth),
             F, template, ctx, fuel, depth, start, end)

\* TemplateEngine::process_translations
process_translations_at(E, F, template, ctx, fuel, depth) ==
    translation_directive(Find(template, T_OPEN),
                          FindFrom(template, Find(template, T_OPEN), CLOSE),
                          E, F, template, ctx, fuel, depth)

\* render_string: process_comments on the substituted text
render_string_comments(v, E) ==
    IF ~IsOk(v) THEN ER(E, v) ELSE ER(E, Ok(process_comments(v.val)))

\* render_string: process_variables
render_string_variables(p, E, ctx) ==
    IF ~IsOk(p) THEN ER(E, p) ELSE render_string_comments(process_variables(E, p.val, ctx), E)

\* render_string: process_pluralization
render_string_pluralization(t, ctx) ==
    IF ~IsOk(t.r) THEN t ELSE render_string_variables(process_pluralization(t.r.val, ctx), t.e, ctx)

\* render_string: process_translations
render_string_translations(l, F, ctx, depth) ==
    IF ~IsOk(l.r) THEN l
    ELSE render_string_pluralization(process_translations_at(l.e, F, l.r.val, ctx, MaxIter, depth - 1),
                              ctx)

\* render_string: process_loops
render_string_loops(c, E, F, ctx, depth) ==
    IF ~IsOk(c) THEN ER(E, c)
    ELSE render_string_translations(process_loops_at(E, F, c.val, ctx, MaxIter, depth - 1),
                             F, ctx, depth)

\* render_string: process_conditionals
render_string_conditionals(i, F, ctx, depth) ==
    IF ~IsOk(i.r) THEN i
    ELSE render_string_loops(process_conditionals(i.r.val, ctx), i.e, F, ctx, depth)

\* render_string: process_includes
render_string_includes(m, F, ctx, depth) ==
    IF ~IsOk(m.r) THEN m
    ELSE render_string_conditionals(process_includes(m.e, F, m.r.val, MaxIter), F, ctx, depth)

\* TemplateEngine::render_string; depth bounds the nesting of renders
\* (macro bodies, translations)
render_string_at(E, F, template, ctx, depth) ==
    IF depth = 0 THEN ER(E, Hang)
    ELSE render_string_includes(process_macros_with_context(E, F, template, ctx, depth - 1),
                         F, ctx, depth)

render_string(E, F, template, ctx) == render_string_at(E, F, template, ctx, MaxIter)

\* ---------------------------------------------------------------- layouts
EXTENDS_OPEN == <<"{", "{", "e", "x", "t", "e", "n", "d", "s", " ">>
BLOCK_OPEN == <<"{", "{", "b", "l", "o", "c", "k", " ">>
BLOCK_END == <<"{", "{", "/", "b", "l", "o", "c", "k", "}", "}">>
SUPER == <<"{", "{", "s", "u", "p", "e", "r", "}", "}">>
\* format!("{{{{/block {}}}}}", block_name)
named_block_end(block_name) == <<"{", "{", "/", "b", "l", "o", "c", "k", " ">> \o block_name \o CLOSE

\* str::replace(pat, with)
RECURSIVE ReplaceAll(_, _, _)
ReplaceAll(s, pat, with) ==
    LET i == Find(s, pat)
    IN  IF i = -1 THEN s
        ELSE Slice(s, 0, i) \o with \o ReplaceAll(SliceFrom(s, i + Len(pat)), pat, with)

\* find_extends_directive: the name between {{extends and }}
extends_name_at(content, start, end) ==
    IF start = -1 \/ end = -1 THEN <<>>
    ELSE <<TrimQuotes(Trim(Slice(content, start + 10, start + end)))>>

\* LayoutProcessor::find_extends_directive: <<>> for None, <<name>> for
\* Some(name)
find_extends_directive(content) ==
    extends_name_at(content, Find(content, EXTENDS_OPEN),
                    FindFrom(content, Find(content, EXTENDS_OPEN), CLOSE))

\* remove_extends_directive: the content without the directive
extends_removed_at(content, start, end) ==
    IF start = -1 \/ end = -1 THEN content
    ELSE Trim(Slice(content, 0, start) \o SliceFrom(content, start + end + 2))

\* LayoutProcessor::remove_extends_directive
remove_extends_directive(content) ==
    extends_removed_at(content, Find(content, EXTENDS_OPEN),
                       FindFrom(content, Find(content, EXTENDS_OPEN), CLOSE))

\* LayoutProcessor::find_matching_block_end: the offset, -1 for Parse error
RECURSIVE find_matching_block_end_from(_, _, _, _)
\* find_matching_block_end: a closing tag found at abs_close
block_end_close(content, block_name, nesting_level, abs_close, tag_len) ==
    IF nesting_level - 1 = 0 THEN abs_close
    ELSE find_matching_block_end_from(content, block_name, abs_close + tag_len,
                                      nesting_level - 1)

\* find_matching_block_end: the next opening and closing tags after pos
block_end_scan(content, block_name, pos, nesting_level, open_pos, simple_pos, named_pos) ==
    IF open_pos # -1
    THEN IF simple_pos # -1
         THEN IF open_pos < simple_pos
              THEN find_matching_block_end_from(content, block_name, pos + open_pos + 8,
                                                nesting_level + 1)
              ELSE block_end_close(content, block_name, nesting_level, pos + simple_pos, 10)
         ELSE IF named_pos # -1
         THEN block_end_close(content, block_name, nesting_level, pos + named_pos,
                              Len(named_block_end(block_name)))
         ELSE -1
    ELSE IF simple_pos # -1
    THEN block_end_close(content, block_name, nesting_level, pos + simple_pos, 10)
    ELSE IF named_pos # -1
    THEN block_end_close(content, block_name, nesting_level, pos + named_pos,
                         Len(named_block_end(block_name)))
    ELSE -1

find_matching_block_end_from(content, block_name, pos, nesting_level) ==
    IF ~(pos < Len(content)) THEN -1
    ELSE block_end_scan(content, block_name, pos, nesting_level,
                        FindFrom(content, pos, BLOCK_OPEN), FindFrom(content, pos, BLOCK_END),
                        FindFrom(content, pos, named_block_end(block_name)))

find_matching_block_end(content, block_name) ==
    find_matching_block_end_from(content, block_name, 0, 1)

\* LayoutProcessor::extract_blocks: Ok(name -> content) or Err
RECURSIVE extract_blocks_from(_, _, _)
\* extract_blocks: end_tag_len
block_end_tag_len(content, absolute_end, block_name) ==
    IF StartsWithAt(content, absolute_end, named_block_end(block_name))
    THEN Len(block_name) + 10 ELSE 9

\* extract_blocks: blocks.insert(block_name, block_content)
block_insert(content, blocks, block_name, content_start, block_end) ==
    IF block_end = -1 THEN Err("Parse")
    ELSE extract_blocks_from(content,
             content_start + block_end
                 + block_end_tag_len(content, content_start + block_end, block_name),
             MapPut(blocks, block_name,
                    Trim(Slice(content, content_start, content_start + block_end))))

\* extract_blocks: the matching end of the block
block_named(content, blocks, block_name, content_start) ==
    block_insert(content, blocks, block_name, content_start,
                 find_matching_block_end(SliceFrom(content, content_start), block_name))

\* extract_blocks: the opening tag at absolute_start
block_tag(content, blocks, absolute_start, tag_end) ==
    IF tag_end = -1 THEN Err("Parse")
    ELSE block_named(content, blocks,
                     Trim(Slice(content, absolute_start + 8, absolute_start + tag_end)),
                     absolute_start + tag_end + 2)

block_at(content, pos, blocks, block_start) ==
    IF block_start = -1 THEN Ok(blocks)
    ELSE block_tag(content, blocks, pos + block_start,
                   FindFrom(content, pos + block_start, CLOSE))

extract_blocks_from(content, pos, blocks) ==
    block_at(content, pos, blocks, FindFrom(content, pos, BLOCK_OPEN))

extract_blocks(content) == extract_blocks_from(content, 0, EmptyMap)

\* parse_template: self.layouts.insert(name, layout_info)
layout_store(L, name, extends, body, blocks) ==
    IF ~IsOk(blocks) THEN [l |-> L, r |-> blocks]
    ELSE [l |-> MapPut(L, name, [extends |-> extends, blocks |-> blocks.val, content |-> body]),
          r |-> Ok(<<>>)]

\* parse_template: the blocks of the content without its extends directive
layout_body(L, name, extends, body) ==
    layout_store(L, name, extends, body, extract_blocks(body))

layout_extends(L, name, content, extends) ==
    layout_body(L, name, extends,
                IF extends # <<>> THEN remove_extends_directive(content) ELSE content)

\* LayoutProcessor::parse_template on the table L (name -> LayoutInfo):
\* [l |-> table, r |-> result]
parse_template(L, name, content) ==
    layout_extends(L, name, content, find_extends_directive(content))

\* LayoutProcessor::process_super_directive
process_super_directive(content, parent_content) == ReplaceAll(content, SUPER, parent_content)

\* the first pass of merge_blocks: Ok(sequence of [start, end, replacement]),
\* Err or Panic
RECURSIVE blocks_to_replace_from(_, _, _)
\* merge_blocks: blocks_to_replace.push((start, end, replacement))
replacement_push(rest, absolute_start, end_tag_end, replacement_content) ==
    IF ~IsOk(rest) THEN rest
    ELSE Ok(<<[start |-> absolute_start, end |-> end_tag_end,
               replacement |-> replacement_content]>> \o rest.val)

\* merge_blocks: replacement_content
block_replacement(child_blocks, block_name, default_content) ==
    IF block_name \in DOMAIN child_blocks
    THEN process_super_directive(child_blocks[block_name], default_content)
    ELSE default_content

\* merge_blocks: end_tag_end
block_end_tag_end(result, absolute_content_end, block_name) ==
    IF StartsWithAt(result, absolute_content_end, named_block_end(block_name))
    THEN absolute_content_end + Len(named_block_end(block_name))
    ELSE absolute_content_end + 10

\* merge_blocks: one block recorded, then the blocks after it
replace_block_closed(result, child_blocks, absolute_start, block_name, content_start, absolute_content_end, end_tag_end) ==
    replacement_push(blocks_to_replace_from(result, child_blocks, end_tag_end),
                     absolute_start, end_tag_end,
                     block_replacement(child_blocks, block_name,
                         Trim(Slice(result, content_start, absolute_content_end))))

\* merge_blocks: the end tag of the block
replace_block_end(result, child_blocks, absolute_start, block_name, content_start, block_content_end) ==
    IF block_content_end = -1 THEN Err("Parse")
    ELSE IF ~StartsWithAt(result, content_start + block_content_end,
                          named_block_end(block_name))
            /\ ~StartsWithAt(result, content_start + block_content_end, BLOCK_END)
    THEN Err("Parse")
    ELSE replace_block_closed(result, child_blocks, absolute_start, block_name,
             content_start, content_start + block_content_end,
             block_end_tag_end(result, content_start + block_content_end, block_name))

\* merge_blocks: block_name = parts[0]
replace_block_named(result, child_blocks, absolute_start, content_start, parts) ==
    IF parts = <<>> THEN Panic
    ELSE replace_block_end(result, child_blocks, absolute_start, parts[1], content_start,
             find_matching_block_end(SliceFrom(result, content_start), parts[1]))

\* merge_blocks: the opening tag at absolute_start
replace_block_tag(result, child_blocks, absolute_start, tag_end) ==
    IF tag_end = -1 THEN Err("Parse")
    ELSE replace_block_named(result, child_blocks, absolute_start,
             absolute_start + tag_end + 2,
             SplitWhitespace(Slice(result, absolute_start + 8, absolute_start + tag_end)))

replace_block_at(result, child_blocks, pos, block_start) ==
    IF block_start = -1 THEN Ok(<<>>)
    ELSE replace_block_tag(result, child_blocks, pos + block_start,
                           FindFrom(result, pos + block_start, CLOSE))

blocks_to_replace_from(result, child_blocks, pos) ==
    replace_block_at(result, child_blocks, pos, FindFrom(result, pos, BLOCK_OPEN))

\* the second pass of merge_blocks: replacements applied from the end
RECURSIVE apply_replacements(_, _)
apply_replacements(result, reps) ==
    IF reps = <<>> THEN result
    ELSE LET last == reps[Len(reps)]
         IN  apply_replacements(ReplaceRange(result, last.start, last.end, last.replacement),
                                SubSeq(reps, 1, Len(reps) - 1))

\* merge_blocks: the second pass on the result of the first
merge_replacements(template_content, reps) ==
    IF ~IsOk(reps) THEN reps ELSE Ok(apply_replacements(template_content, reps.val))

\* LayoutProcessor::merge_blocks
merge_blocks(template_content, child_blocks) ==
    merge_replacements(template_content, blocks_to_replace_from(template_content, child_blocks, 0))

\* LayoutProcessor::resolve_inheritance; fuel bounds the parent chain
RECURSIVE resolve_inheritance_at(_, _, _)
\* resolve_inheritance: merge_blocks on the resolved content
merge_resolved(resolved, blocks) ==
    IF ~IsOk(resolved) THEN resolved ELSE merge_blocks(resolved.val, blocks)

\* resolve_inheritance: resolved_parent
resolve_parent(L, parent_name, fuel) ==
    IF L[parent_name].extends # <<>> THEN resolve_inheritance_at(L, parent_name, fuel - 1)
    ELSE Ok(L[parent_name].content)

\* resolve_inheritance: the layout of template_name
resolve_layout(L, layout_info, fuel) ==
    IF layout_info.extends # <<>> /\ layout_info.extends[1] \notin DOMAIN L
    THEN Err("Template")
    ELSE merge_resolved(IF layout_info.extends # <<>>
                        THEN resolve_parent(L, layout_info.extends[1], fuel)
                        ELSE Ok(layout_info.content),
                        layout_info.blocks)

resolve_inheritance_at(L, template_name, fuel) ==
    IF fuel = 0 THEN Hang
    ELSE IF template_name \notin DOMAIN L THEN Err("Template")
    ELSE resolve_layout(L, L[template_name], fuel)

resolve_inheritance(L, template_name) == resolve_inheritance_at(L, template_name, MaxIter)

\* TemplateEngine::load_parent_templates; fuel bounds the recursion
RECURSIVE load_parent_templates_at(_, _, _, _)
\* load_parent_templates: the parent parsed, then its own parents
parent_parsed(loaded, parsed, F, parent_name, fuel) ==
    IF ~IsOk(parsed.r) THEN ER(loaded.e, parsed.r)
    ELSE load_parent_templates_at([loaded.e EXCEPT !.layouts = parsed.l], F, parent_name,
                                  fuel - 1)

\* load_parent_templates: the parent loaded
parent_loaded(loaded, F, parent_name, fuel) ==
    IF ~IsOk(loaded.r) THEN loaded
    ELSE parent_parsed(loaded, parse_template(loaded.e.layouts, parent_name, loaded.r.val),
                       F, parent_name, fuel)

\* load_parent_templates: a parent that is not in the table is loaded
load_parent(E, F, parent_name, fuel) ==
    IF parent_name \in DOMAIN E.layouts
    THEN load_parent_templates_at(E, F, parent_name, fuel - 1)
    ELSE parent_loaded(load_template(E, F, parent_name), F, parent_name, fuel)

load_parent_templates_at(E, F, template_name, fuel) ==
    IF fuel = 0 THEN ER(E, Hang)
    ELSE IF template_name \notin DOMAIN E.layouts \/ E.layouts[template_name].extends = <<>>
    THEN ER(E, Ok(<<>>))
    ELSE load_parent(E, F, E.layouts[template_name].extends[1], fuel)

load_parent_templates(E, F, template_name) == load_parent_templates_at(E, F, template_name, MaxIter)

\* TemplateEngine::has_layout_inheritance
has_layout_inheritance(E, template_name) ==
    template_name \in DOMAIN E.layouts /\ E.layouts[template_name].extends # <<>>

\* render: render_string on the final template
render_final(parents, F, ctx, final_template) ==
    IF ~IsOk(final_template) THEN ER(parents.e, final_template)
    ELSE render_string(parents.e, F, final_template.val, ctx)

\* render: final_template, resolved if the template extends a layout
render_parents(parents, F, template_name, ctx, content) ==
    IF ~IsOk(parents.r) THEN parents
    ELSE render_final(parents, F, ctx,
                      IF has_layout_inheritance(parents.e, template_name)
                      THEN resolve_inheritance(parents.e.layouts, template_name)
                      ELSE Ok(content))

\* render: load_parent_templates after parse_template
render_parsed(loaded, parsed, F, template_name, ctx) ==
    IF ~IsOk(parsed.r) THEN ER(loaded.e, parsed.r)
    ELSE render_parents(
             load_parent_templates([loaded.e EXCEPT !.layouts = parsed.l], F, template_name),
             F, template_name, ctx, loaded.r.val)

\* render: parse_template on the loaded content
render_loaded(loaded, F, template_name, ctx) ==
    IF ~IsOk(loaded.r) THEN loaded
    ELSE render_parsed(loaded, parse_template(loaded.e.layouts, template_name, loaded.r.val),
                       F, template_name, ctx)

\* TemplateEngine::render
render(E, F, template_name, ctx) ==
    render_loaded(load_template(E, F, template_name), F, template_name, ctx)

\* --------------------------------------------------------------- bytecode
\* BytecodeInstruction, one record shape for every variant
Instr(op, text, path, item) == [op |-> op, text |-> text, path |-> path, item |-> item]
OutputLiteral(text) == Instr("OutputLiteral", text, <<>>, <<>>)
OutputVariable(path) == Instr("OutputVariable", <<>>, path, <<>>)
OutputRaw(path) == Instr("OutputRaw", <<>>, path, <<>>)
JumpIfFalsy(path) == Instr("JumpIfFalsy", <<>>, path, <<>>)
StartLoop(item, path) == Instr("StartLoop", <<>>, path, item)
EndLoop == Instr("EndLoop", <<>>, <<>>, <<>>)
Nop == Instr("Nop", <<>>, <<>>, <<>>)

\* TemplateCompiler::parse_variable_path
parse_variable_path(var_name) == SplitStr(var_name, <<".">>)

\* the instructions one directive compiles to (none for a malformed for)
compile_directive(directive) ==
    LET parts == SplitWhitespace(directive)
    IN  IF StartsWith(directive, <<"i", "f", " ">>)
        THEN <<JumpIfFalsy(parse_variable_path(Trim(SliceFrom(directive, 3))))>>
        ELSE IF directive = <<"/", "i", "f">> THEN <<Nop>>
        ELSE IF StartsWith(directive, <<"f", "o", "r", " ">>)
        THEN IF Len(parts) >= 4 /\ parts[3] = <<"i", "n">>
             THEN <<StartLoop(parts[2], parse_variable_path(parts[4]))>>
             ELSE <<>>
        ELSE IF directive = <<"/", "f", "o", "r">> THEN <<EndLoop>>
        ELSE IF StartsWith(directive, <<"&", " ">>)
        THEN <<OutputRaw(parse_variable_path(Trim(SliceFrom(directive, 2))))>>
        ELSE <<OutputVariable(parse_variable_path(directive))>>

\* TemplateCompiler::compile from offset pos
RECURSIVE compile_from(_, _, _)
compile_from(chars, pos, instructions) ==
    LET close == FindFrom(chars, pos + 2, CLOSE)
        end_pos == pos + 2 + close
        directive == Trim(Slice(chars, pos + 2, end_pos))
        next_open == FindFrom(chars, pos, OPEN)
        text_end == IF next_open = -1 THEN Len(chars) ELSE pos + next_open
    IN  IF ~(pos < Len(chars)) THEN Ok(instructions)
        ELSE IF StartsWithAt(chars, pos, OPEN)
        THEN IF close = -1 THEN Err("Parse")
             ELSE compile_from(chars, end_pos + 2, instructions \o compile_directive(directive))
        ELSE compile_from(chars, text_end,
                          instructions \o <<OutputLiteral(Slice(chars, pos, text_end))>>)

compile(template) == compile_from(template, 0, <<>>)

\* BytecodeExecutor::escape_html
escape_html(text) ==
    ReplaceAll(ReplaceAll(ReplaceAll(ReplaceAll(ReplaceAll(text,
        <<"&">>, <<"&", "a", "m", "p", ";">>),
        <<"<">>, <<"&", "l", "t", ";">>),
        <<">">>, <<"&", "g", "t", ";">>),
        <<"\"">>, <<"&", "q", "u", "o", "t", ";">>),
        <<"'">>, <<"&", "#", "x", "2", "7", ";">>)

\* BytecodeExecutor::resolve_variable_path
resolve_variable_path(path, ctx) ==
    IF path = <<>> THEN <<>>
    ELSE IF Len(path) = 1 THEN get_string_or_default(ctx, path[1])
    ELSE IF HasVar(ctx, path[1]) THEN traverse_nested_value(ctx[path[1]], Tail(path))
    ELSE <<>>

\* the condition of JumpIfFalsy: Ok(BOOLEAN), or Panic on path[0] of an
\* empty path
jump_condition(path, ctx) ==
    IF path = <<>> THEN Panic
    ELSE IF ~HasVar(ctx, path[1]) THEN Ok(FALSE)
    ELSE LET w == walk_path(ctx[path[1]], Tail(path))
         IN  Ok(w.found /\ is_truthy(w.v))

\* the index of the first Nop at or after pc, Len + 1 when there is none
RECURSIVE skip_to_nop(_, _)
skip_to_nop(instructions, pc) ==
    IF pc <= Len(instructions) /\ instructions[pc].op # "Nop"
    THEN skip_to_nop(instructions, pc + 1) ELSE pc

\* BytecodeExecutor::execute from program counter pc (1-based)
RECURSIVE execute_from(_, _, _, _)
execute_from(instructions, ctx, pc, output) ==
    LET ins == instructions[pc]
        cond == jump_condition(ins.path, ctx)
    IN  IF ~(pc <= Len(instructions)) THEN Ok(output)
        ELSE CASE ins.op = "OutputLiteral" ->
                    execute_from(instructions, ctx, pc + 1, output \o ins.text)
               [] ins.op = "OutputVariable" ->
                    execute_from(instructions, ctx, pc + 1,
                                 output \o escape_html(resolve_variable_path(ins.path, ctx)))
               [] ins.op = "OutputRaw" ->
                    execute_from(instructions, ctx, pc + 1,
                                 output \o resolve_variable_path(ins.path, ctx))
               [] ins.op = "JumpIfFalsy" ->
                    IF ~IsOk(cond) THEN cond
                    ELSE IF cond.val THEN execute_from(instructions, ctx, pc + 1, output)
                    ELSE execute_from(instructions, ctx, skip_to_nop(instructions, pc) + 1, output)
               [] OTHER -> execute_from(instructions, ctx, pc + 1, output)

execute(instructions, ctx) == execute_from(instructions, ctx, 1, <<>>)

\* TemplateEngine::render_compiled
render_compiled(compiled_template, ctx) == execute(compiled_template.instructions, ctx)

\* TemplateEngine::compile_to_bytecode
compile_to_bytecode(E, F, template_name) ==
    LET loaded == load_template(E, F, template_name)
        instructions == compile(loaded.r.val)
        compiled == [name |-> template_name, instructions |-> instructions.val]
    IN  IF E.bytecode_cache_enabled /\ template_name \in DOMAIN E.bytecode_cache
        THEN ER(E, Ok(E.bytecode_cache[template_name]))
        ELSE IF ~IsOk(loaded.r) THEN loaded
        ELSE IF ~IsOk(instructions) THEN ER(loaded.e, instructions)
        ELSE ER(IF E.bytecode_cache_enabled
                THEN [loaded.e EXCEPT !.bytecode_cache = MapPut(@, template_name, compiled)]
                ELSE loaded.e,
                Ok(compiled))

\* ----------------------------------------------------------------- engine
\* a HashMap iteration order over the macro names the model uses
MacroOrders == {<<<<"m">>, <<"n">>>>, <<<<"n">>, <<"m">>>>}

\* TemplateEngine::new
new(order) ==
    [cache |-> EmptyMap, bytecode_cache_enabled |-> FALSE, bytecode_cache |-> EmptyMap,
     layouts |-> EmptyMap, macros |-> EmptyMap, helpers |-> EmptyMap,
     translations |-> EmptyMap, current_locale |-> <<>>, custom_filters |-> EmptyMap,
     hot_reload_enabled |-> FALSE, file_mtimes |-> EmptyMap,
     template_dependencies |-> EmptyMap, hash_order |-> order, reads |-> <<>>]

\* TemplateEngine::register_helper
register_helper(E, name, func) == [E EXCEPT !.helpers = MapPut(@, name, func)]

\* TemplateEngine::set_translations
set_translations(E, locale, translations) ==
    [E EXCEPT !.translations = MapPut(@, locale, translations)]

\* TemplateEngine::set_locale
set_locale(E, locale) == [E EXCEPT !.current_locale = <<locale>>]

\* TemplateEngine::register_filter
register_filter(E, name, func) == [E EXCEPT !.custom_filters = MapPut(@, name, func)]

\* TemplateEngine::enable_hot_reload, disable_hot_reload
enable_hot_reload(E) == [E EXCEPT !.hot_reload_enabled = TRUE]
disable_hot_reload(E) == [E EXCEPT !.hot_reload_enabled = FALSE]

\* HashMap::remove of every key of ks
MapRemove(m, ks) == [x \in DOMAIN m \ ks |-> m[x]]

\* fs::metadata(path) and metadata.modified(): <<time>>, or <<>> on an error
file_modified(F, name) ==
    IF F.dir_ok /\ name \in DOMAIN F.files THEN <<F.files[name].mtime>> ELSE <<>>

\* check_and_reload_if_needed: should_reload
should_reload(E, template_name, modified) ==
    IF template_name \in DOMAIN E.file_mtimes
    THEN modified > E.file_mtimes[template_name] ELSE TRUE

\* check_and_reload_if_needed: the names recorded as depending on the template
dependents_of(E, template_name) ==
    IF template_name \in DOMAIN E.template_dependencies
    THEN E.template_dependencies[template_name] ELSE {}

\* check_and_reload_if_needed: the entries dropped and the time recorded
reload_template(E, template_name, modified) ==
    [E EXCEPT !.cache = MapRemove(@, {template_name} \cup dependents_of(E, template_name)),
              !.bytecode_cache = MapRemove(@, {template_name}
                                              \cup dependents_of(E, template_name)),
              !.file_mtimes = MapPut(@, template_name, modified)]

\* check_and_reload_if_needed with the file's metadata
check_modified(E, template_name, metadata) ==
    IF metadata = <<>> THEN E
    ELSE IF should_reload(E, template_name, metadata[1])
    THEN reload_template(E, template_name, metadata[1])
    ELSE E

\* TemplateEngine::check_and_reload_if_needed
check_and_reload_if_needed(E, F, template_name) ==
    check_modified(E, template_name, file_modified(F, template_name))

\* TemplateEngine::load_template_with_enhanced_errors
load_template_with_enhanced_errors(E, F, template_name) ==
    IF ~(F.dir_ok /\ template_name \in DOMAIN F.files)
    THEN ER(E, Err("TemplateNotFoundWithSuggestions"))
    ELSE load_template(E, F, template_name)

IF_WORD == <<"{", "{", "i", "f">>

\* parse_and_render_internal: the check that follows process_variables
unclosed_if_check(result) ==
    IF IsOk(result) /\ Contains(result.val, IF_WORD) /\ ~Contains(result.val, IF_END)
    THEN Err("Parse") ELSE result

\* TemplateEngine::parse_and_render_internal
parse_and_render_internal(E, template, ctx) ==
    unclosed_if_check(process_variables(E, template, ctx))

\* TemplateEngine::enhance_parse_error on a Parse error, other results as
\* they are
enhance_parse_error(result) ==
    IF result = Err("Parse") THEN Err("ParseWithLocation") ELSE result

\* TemplateEngine::render_string_with_error_enhancement
render_string_with_error_enhancement(E, template, ctx) ==
    enhance_parse_error(parse_and_render_internal(E, template, ctx))

\* render_v040: the render of the loaded template
render_v040_loaded(loaded, ctx) ==
    IF ~IsOk(loaded.r) THEN loaded
    ELSE ER(loaded.e, render_string_with_error_enhancement(loaded.e, loaded.r.val, ctx))

\* TemplateEngine::render_v040
render_v040(E, F, template_name, ctx) ==
    render_v040_loaded(
        load_template_with_enhanced_errors(
            IF E.hot_reload_enabled THEN check_and_reload_if_needed(E, F, template_name)
            ELSE E,
            F, template_name),
        ctx)

\* fs::read_to_string(template_dir.join(name)) mapped to an Io error
read_file_async(F, template_name) ==
    IF F.dir_ok /\ template_name \in DOMAIN F.files
    THEN Ok(F.files[template_name].content) ELSE Err("Io")

\* AsyncTemplateEngine::load_template_async: the file is read as named
load_template_async(E, F, template_name) ==
    ER([E EXCEPT !.reads = Append(@, template_name)], read_file_async(F, template_name))

\* compile_to_bytecode_uncached: the compilation of the loaded template
compile_loaded(loaded, template_name, instructions) ==
    IF ~IsOk(loaded.r) THEN loaded
    ELSE IF ~IsOk(instructions) THEN ER(loaded.e, instructions)
    ELSE ER(loaded.e, Ok([name |-> template_name, instructions |-> instructions.val]))

\* TemplateEngine::compile_to_bytecode_uncached
compile_to_bytecode_uncached(E, F, template_name) ==
    compile_loaded(load_template(E, F, template_name), template_name,
                   compile(load_template(E, F, template_name).r.val))

\* TemplateEngine::is_bytecode_cached
is_bytecode_cached(E, template_name) == template_name \in DOMAIN E.bytecode_cache

\* enable_bytecode_cache without the clear() on disabling
enable_bytecode_cache_keep(E, enabled) == [E EXCEPT !.bytecode_cache_enabled = enabled]

\* TemplateEngine::enable_bytecode_cache
enable_bytecode_cache(E, enabled) ==
    [E EXCEPT !.bytecode_cache_enabled = enabled,
              !.bytecode_cache = IF enabled THEN @ ELSE EmptyMap]

\* the template directory after a write of the file and after its removal
write_file(F, name, content, time) ==
    [F EXCEPT !.files = MapPut(@, name, [content |-> content, escapes |-> FALSE,
                                          mtime |-> time])]
remove_file(F, name) == [F EXCEPT !.files = MapRemove(@, {name})]

\* ----------------------------------------------------- editor diagnostics
\* suggestions::find_line_column: the 1-based line and column of an offset
NewlinesBefore(content, char_offset) ==
    {i \in 1..Min(char_offset, Len(content)) : content[i] = "\n"}

find_line_column(content, char_offset) ==
    [line |-> 1 + Cardinality(NewlinesBefore(content, char_offset)),
     column |-> 1 + Min(char_offset, Len(content))
                  - SetMax(NewlinesBefore(content, char_offset) \cup {0})]

\* TemplateEngine::calculate_line_column
calculate_line_column(content, position) == find_line_column(content, position)

\* Diagnostic::new; the message is a format string with its argument
Diagnostic(message, arg, severity, lc) ==
    [message |-> message, arg |-> arg, severity |-> severity,
     line |-> lc.line, column |-> lc.column]

\* TemplateEngine::is_known_filter
KnownFilters ==
    {S_upper, S_lower, S_currency, S_truncate, S_round, S_add, S_multiply, S_divide, S_percentage}

is_known_filter(E, filter_name) ==
    filter_name \in KnownFilters \/ filter_name \in DOMAIN E.custom_filters

\* get_diagnostics_for_editor: directive_stack.push((kind, line, column))
directive_push(st, kind, lc) ==
    [st EXCEPT !.stack = Append(@, [kind |-> kind, line |-> lc.line, column |-> lc.column])]

\* Vec::pop
StackPop(stack) == SubSeq(stack, 1, Len(stack) - 1)

\* get_diagnostics_for_editor: the arm of a directive that starts with /if
close_if(st, lc) ==
    IF st.stack = <<>>
    THEN [st EXCEPT !.diags = Append(@, Diagnostic("Unexpected closing directive", <<>>,
                                                   "error", lc))]
    ELSE IF st.stack[Len(st.stack)].kind # "if"
    THEN [stack |-> StackPop(st.stack),
          diags |-> Append(st.diags, Diagnostic("Mismatched closing directive", <<>>,
                                                "error", lc))]
    ELSE [st EXCEPT !.stack = StackPop(@)]

\* get_diagnostics_for_editor: the arm of a directive that starts with /for
close_for(st, lc) ==
    IF st.stack = <<>> THEN st
    ELSE IF st.stack[Len(st.stack)].kind # "for"
    THEN [stack |-> StackPop(st.stack),
          diags |-> Append(st.diags, Diagnostic("Mismatched closing directive", <<>>,
                                                "error", lc))]
    ELSE [st EXCEPT !.stack = StackPop(@)]

\* get_diagnostics_for_editor: the unknown filters of parts[i..]
RECURSIVE unknown_filters(_, _, _, _)
unknown_filters(E, parts, i, lc) ==
    IF i > Len(parts) THEN <<>>
    ELSE (IF is_known_filter(E, Trim(Split(parts[i], ":")[1])) THEN <<>>
          ELSE <<Diagnostic("Unknown filter: {}", Trim(Split(parts[i], ":")[1]), "error", lc)>>)
         \o unknown_filters(E, parts, i + 1, lc)

\* get_diagnostics_for_editor: the unknown variable of parts[0]
unknown_variable(ctx, var_name, lc) ==
    IF var_name # <<>> /\ ~HasVar(ctx, var_name)
    THEN <<Diagnostic("Unknown variable: {}", var_name, "warning", lc)>>
    ELSE <<>>

\* get_diagnostics_for_editor: the arm of a variable directive
variable_diagnostics(E, ctx, parts, lc, st) ==
    [st EXCEPT !.diags = @ \o unknown_variable(ctx, Trim(parts[1]), lc)
                           \o unknown_filters(E, parts, 2, lc)]

\* get_diagnostics_for_editor: the if / else-if chain over directive_content
directive_diagnostics(E, ctx, directive_content, lc, st) ==
    IF StartsWith(directive_content, <<"i", "f", " ">>) THEN directive_push(st, "if", lc)
    ELSE IF StartsWith(directive_content, <<"f", "o", "r", " ">>)
    THEN directive_push(st, "for", lc)
    ELSE IF StartsWith(directive_content, <<"/", "i", "f">>) THEN close_if(st, lc)
    ELSE IF StartsWith(directive_content, <<"/", "f", "o", "r">>) THEN close_for(st, lc)
    ELSE IF ~StartsWith(directive_content, <<"/">>) /\ ~StartsWith(directive_content, <<"!">>)
    THEN variable_diagnostics(E, ctx, Split(directive_content, "|"), lc, st)
    ELSE st

\* get_diagnostics_for_editor: the Unclosed diagnostics of the directives
\* left on the stack, bottom first
unclosed_diagnostics(stack) ==
    [i \in 1..Len(stack) |->
        Diagnostic("Unclosed {} directive", stack[i].kind, "error",
                   [line |-> stack[i].line, column |-> stack[i].column])]

RECURSIVE diagnostics_from(_, _, _, _, _)
\* get_diagnostics_for_editor: the directive found at abs_start
diagnostics_at(E, template, ctx, st, abs_start, end) ==
    IF end = -1 THEN Ok(st.diags \o unclosed_diagnostics(st.stack))
    ELSE diagnostics_from(E, template, ctx, abs_start + end + 2,
             directive_diagnostics(E, ctx, Trim(Slice(template, abs_start + 2, abs_start + end)),
                                   calculate_line_column(template, abs_start), st))

\* get_diagnostics_for_editor: one turn of the while loop
diagnostics_turn(E, template, ctx, current_pos, st, start) ==
    IF start = -1 THEN Ok(st.diags \o unclosed_diagnostics(st.stack))
    ELSE diagnostics_at(E, template, ctx, st, current_pos + start,
                        FindFrom(template, current_pos + start, CLOSE))

diagnostics_from(E, template, ctx, current_pos, st) ==
    diagnostics_turn(E, template, ctx, current_pos, st, FindFrom(template, current_pos, OPEN))

\* TemplateEngine::get_diagnostics_for_editor
get_diagnostics_for_editor(E, template, ctx) ==
    diagnostics_from(E, template, ctx, 0, [stack |-> <<>>, diags |-> <<>>])

\* ------------------------------------------------------------ debug render
\* ExecutionStep::new
ExecutionStep(step_type, name, lc) ==
    [step_type |-> step_type, name |-> name, line |-> lc.line, column |-> lc.column]

\* DebugInfo::add_variable_access
add_variable_access(info, variable) ==
    IF \E i \in 1..Len(info.variables_accessed) : info.variables_accessed[i] = variable
    THEN info
    ELSE [info EXCEPT !.variables_accessed = Append(@, variable)]

\* DebugInfo::add_execution_step
add_execution_step(info, step) == [info EXCEPT !.execution_steps = Append(@, step)]

\* render_string_with_debug_tracking: the array variable of a loop expression
track_loop_variable(info, loop_expr, in_pos) ==
    IF in_pos = -1 THEN info
    ELSE add_variable_access(info, Trim(SliceFrom(loop_expr, in_pos + 4)))

\* render_string_with_debug_tracking: a for directive
track_loop(info, loop_expr, lc) ==
    track_loop_variable(add_execution_step(info, ExecutionStep("loop", loop_expr, lc)),
                        loop_expr, Find(loop_expr, IN_SEP))

\* render_string_with_debug_tracking: a step and the variable it reads
track_access(info, step_type, name, lc) ==
    add_variable_access(add_execution_step(info, ExecutionStep(step_type, name, lc)), name)

\* render_string_with_debug_tracking: a regular variable
track_variable(info, var_name, lc) ==
    IF var_name = <<>> THEN info ELSE track_access(info, "variable", var_name, lc)

\* render_string_with_debug_tracking: the kinds of directive
track_directive(info, var_content, lc) ==
    IF StartsWith(var_content, <<"i", "f", " ">>)
    THEN track_access(info, "conditional", Trim(SliceFrom(var_content, 3)), lc)
    ELSE IF StartsWith(var_content, <<"f", "o", "r", " ">>)
    THEN track_loop(info, Trim(SliceFrom(var_content, 4)), lc)
    ELSE IF ~StartsWith(var_content, <<"/">>) /\ ~StartsWith(var_content, <<"!">>)
    THEN track_variable(info, Trim(Split(var_content, "|")[1]), lc)
    ELSE info

RECURSIVE track_from(_, _, _)
\* render_string_with_debug_tracking: the directive found at abs_start
track_at(template, info, abs_start, end) ==
    IF end = -1 THEN info
    ELSE track_from(template, abs_start + end + 2,
                    track_directive(info, Slice(template, abs_start + 2, abs_start + end),
                                    find_line_column(template, abs_start)))

\* render_string_with_debug_tracking: one turn of the scan
track_turn(template, current_pos, info, start) ==
    IF start = -1 THEN info
    ELSE track_at(template, info, current_pos + start,
                  FindFrom(template, current_pos + start, CLOSE))

track_from(template, current_pos, info) ==
    track_turn(template, current_pos, info, FindFrom(template, current_pos, OPEN))

\* TemplateEngine::render_string_original
render_string_original(E, template, ctx) == parse_and_render_internal(E, template, ctx)

\* render_string_with_debug_tracking: the scan, then the rendering
render_string_with_debug_tracking(E, template, ctx, info) ==
    [info |-> track_from(template, 0, info),
     output |-> render_string_original(E, template, ctx)]

T_inline_template == <<"i", "n", "l", "i", "n", "e", "_", "t", "e", "m", "p", "l", "a", "t", "e">>
T_template_render == <<"t", "e", "m", "p", "l", "a", "t", "e", "_", "r", "e", "n", "d", "e", "r">>

\* DebugInfo::new, add_template_processed and the "start" step
debug_info_start ==
    [templates_processed |-> <<T_inline_template>>,
     variables_accessed |-> <<>>,
     execution_steps |-> <<ExecutionStep("start", T_template_render, [line |-> 1, column |-> 1])>>]

\* render_string_with_debug: the "end" step and the DebugRenderResult
debug_render_result(tracked, template) ==
    IF ~IsOk(tracked.output) THEN tracked.output
    ELSE Ok([output |-> tracked.output.val,
             debug_info |-> add_execution_step(tracked.info,
                                ExecutionStep("end", T_template_render,
                                              [line |-> 1, column |-> Len(template)]))])

\* TemplateEngine::render_string_with_debug
render_string_with_debug(E, template, ctx) ==
    debug_render_result(render_string_with_debug_tracking(E, template, ctx, debug_info_start),
                        template)

\* ------------------------------------------------------------ the inputs
\* names
N_p == <<"p">>
N_q == <<"q">>
N_n == <<"n">>
N_m == <<"m">>
N_x == <<"x">>
N_b == <<"b">>
N_s == <<"s">>
N_k == <<"k">>
N_u == <<"u">>
N_zz == <<"z", "z">>
N_items == <<"i", "t">>
N_u_k == <<"u", ".", "k">>
N_u_z == <<"u", ".", "z">>
N_it_0 == <<"i", "t", ".", "0">>
N_it_5 == <<"i", "t", ".", "5">>
N_reverse == <<"r", "e", "v">>
N_exclaim == <<"e", "x", "c">>
N_nope == <<"n", "o", "p", "e">>

\* the template directory: present, with these files
FileOf(content) == [content |-> content, escapes |-> FALSE, mtime |-> 1]

\* texts bound in the contexts
T_lt == <<"<">>
T_markup == <<"<", "i", ">", " ", "a", "'", "\"", "&">>
T_words == <<"a", "b", " ", "c">>
T_inject_q == OPEN \o N_q \o <<"|">> \o S_markdown \o CLOSE
T_inject_m == OPEN \o N_m \o CLOSE

\* builders of the templates the properties speak about
VarTemplate(p) == OPEN \o p \o CLOSE
SaidTemplate(n) ==
    <<"U", "s", "e", "r", " ", "s", "a", "i", "d", ":", " ">> \o VarTemplate(n)
IfTemplate(n) == IF_OPEN \o n \o CLOSE \o <<"Y">> \o IF_END
NestedIfTemplate(a, b) ==
    IF_OPEN \o a \o CLOSE \o <<"X">> \o IF_OPEN \o b \o CLOSE \o <<"Y">> \o IF_END \o <<"Z">> \o IF_END
EqTemplate(L, op, R) ==
    IF_OPEN \o L \o <<" ">> \o op \o <<" ">> \o R \o CLOSE \o <<"Y">> \o IF_END
\* {{macro m(a)}}[{{a}}]{{/macro}} and the call {{m(arg)}}
MacroDefinition ==
    MACRO_OPEN \o <<"m", "(", "a", ")">> \o CLOSE \o <<"[">> \o VarTemplate(<<"a">>) \o <<"]">> \o MACRO_END
MacroCall(arg) == OPEN \o <<"m", "(">> \o arg \o <<")">> \o CLOSE
MacroCallsTemplate(a1, a2) == MacroDefinition \o MacroCall(a1) \o <<"-">> \o MacroCall(a2)
\* {{if x == q}}a{{/if}}, a condition whose right operand is the text q
QuoteOperandTemplate(q) ==
    IF_OPEN \o N_x \o <<" ", "=", "=", " ">> \o q \o CLOSE \o <<"a">> \o IF_END
ForTemplate(x, A, B) == FOR_OPEN \o x \o IN_SEP \o A \o CLOSE \o B \o FOR_END
ChainExpr(x, chain) == x \o Concat([i \in 1..Len(chain) |-> <<"|">> \o chain[i]])
ChainTemplate(x, chain) == OPEN \o ChainExpr(x, chain) \o CLOSE
RawChainTemplate(x, chain) == RAW_OPEN \o ChainExpr(x, chain) \o CLOSE

\* every sequence over S of length 1..n
RECURSIVE SeqsUpTo(_, _)
SeqsUpTo(S, n) ==
    IF n = 0 THEN {<<>>}
    ELSE LET shorter == SeqsUpTo(S, n - 1)
         IN  shorter \cup {Append(q, e) : q \in shorter, e \in S}

\* longest filter chain in the inputs
MaxChain == 2

F_truncate_2 == S_truncate \o <<":", "2">>
ChainFilters == {S_upper, F_truncate_2, S_markdown, N_reverse, N_nope}
Chains == SeqsUpTo(ChainFilters, MaxChain) \ {<<>>}

\* contexts
CtxEmpty == EmptyMap
CtxMarkup == (N_p :> VString(T_markup)) @@ (N_q :> VString(T_lt))
             @@ (N_u :> VObject(N_k :> VString(T_markup)))
CtxInjectMarkdown == (N_p :> VString(T_inject_q)) @@ (N_q :> VString(T_lt))
CtxInjectA == (N_n :> VString(T_inject_m)) @@ (N_m :> VString(<<"A">>))
CtxInjectB == (N_n :> VString(T_inject_m)) @@ (N_m :> VString(<<"B">>))
CtxPlain == (N_n :> VString(T_words)) @@ (N_m :> VString(<<"B">>)) @@ (N_x :> VString(T_words))
CtxTruthy == (N_b :> VBool(TRUE)) @@ (N_s :> VString(<<"0">>)) @@ (N_k :> VNumber(-3))
             @@ (N_items :> VArray(<<VBool(FALSE)>>)) @@ (N_u :> VObject(N_k :> VNumber(0)))
CtxFalsy == (N_b :> VBool(FALSE)) @@ (N_s :> VString(<<>>)) @@ (N_k :> VNumber(0))
            @@ (N_items :> VArray(<<>>)) @@ (N_u :> VObject(EmptyMap))
CtxNested == (N_u :> VObject((N_k :> VString(<<"v">>)) @@ (N_b :> VBool(FALSE))))
             @@ (N_items :> VArray(<<VNumber(7), VNumber(0)>>))
CtxLoop == (N_items :> VArray(<<VBool(TRUE), VBool(FALSE), VString(T_lt)>>))
CtxLoopShadow == (N_items :> VArray(<<VBool(FALSE), VString(<<"a">>)>>))
                 @@ (N_x :> VString(<<"o">>))
CtxDeep == (N_u :> VObject(N_k :> VArray(<<VString(<<"a">>), VString(<<"b">>)>>)))
           @@ (N_items :> VArray(<<VArray(<<VString(<<"c">>)>>), VNumber(1)>>))
           @@ (N_s :> VString(T_words))
CtxMixed == (N_b :> VBool(TRUE)) @@ (N_k :> VNumber(0))
CtxEq == (N_p :> VArray(<<VString(<<"a">>)>>)) @@ (N_q :> VArray(<<VString(<<"b">>)>>))
         @@ (N_n :> VArray(<<VString(<<"a">>)>>)) @@ (N_m :> VNumber(1))
         @@ (N_s :> VString(<<"1">>)) @@ (N_u :> VObject(N_k :> VString(<<"v">>)))
         @@ (N_x :> VObject(N_k :> VString(<<"w">>)))
\* a value that holds the directive that reads it
CtxSelfRaw == (N_x :> VString(RawChainTemplate(N_x, <<>>)))
CtxChainWords == (N_x :> VString(T_words))
CtxChainMarkup == (N_x :> VString(<<"<", "b", ">">>))

\* loop bodies
B_var == VarTemplate(N_x) \o <<",">>
B_if == IfTemplate(N_x)
B_lit == <<"-">>
LoopBodies == {B_var, B_if, B_lit}

PathNames == {N_p, N_q, N_u_k, N_zz}
\* the conditions of the nested conditionals
NestNames == {N_b, N_k}
\* the operands and operators of the equality conditions
EqNames == {N_p, N_q, N_n, N_m, N_s, N_u, N_x}
EqOps == {<<"=", "=">>, <<"!", "=">>}
\* the arguments of the macro calls: a string literal, a variable, a name
\* that no context binds
A_literal == <<"\"", "q", "\"">>
MacroArgs == {A_literal, N_x, N_zz}
\* what the array of a loop is named by: a variable, dotted paths, a missing
\* name, a name of a String
ArrayPaths == {N_items, N_u_k, N_it_0, N_it_5, N_zz, N_s}
CondNames == {N_b, N_s, N_k, N_items, N_u, N_u_k, N_u_z, N_it_0, N_it_5, N_zz}

\* the (template, context) pairs render_string is applied to
\* templates whose opening {{ has no }} after it, one for each kind of
\* directive
UnclosedTemplates ==
    {<<"H", " ">> \o open \o N_x :
        open \in {OPEN, RAW_OPEN, IF_OPEN, FOR_OPEN, INCLUDE_OPEN, MACRO_OPEN, T_OPEN,
                  PLURAL_OPEN, COMMENT_OPEN, SLASH_OPEN}}

RenderCases ==
    {<<VarTemplate(p), c>> : p \in PathNames, c \in {CtxEmpty, CtxMarkup, CtxInjectMarkdown}}
    \cup {<<t, c>> : t \in UnclosedTemplates, c \in {CtxEmpty, CtxPlain}}
    \cup {<<SaidTemplate(N_n), c>> : c \in {CtxInjectA, CtxInjectB, CtxPlain, CtxEmpty}}
    \cup {<<IfTemplate(n), c>> : n \in CondNames, c \in {CtxTruthy, CtxFalsy, CtxNested, CtxEmpty}}
    \cup {<<ForTemplate(N_x, N_items, B), c>> : B \in LoopBodies,
                                               c \in {CtxLoop, CtxLoopShadow, CtxFalsy}}
    \cup {<<ForTemplate(N_x, A, B_lit), c>> : A \in ArrayPaths, c \in {CtxDeep, CtxEmpty}}
    \cup {<<NestedIfTemplate(a, b), c>> : a \in NestNames, b \in NestNames,
                                           c \in {CtxTruthy, CtxFalsy, CtxMixed}}
    \cup {<<EqTemplate(L, op, R), CtxEq>> : L \in EqNames, R \in EqNames, op \in EqOps}
    \cup {<<MacroCallsTemplate(a1, a2), c>> : a1 \in MacroArgs, a2 \in MacroArgs,
                                             c \in {CtxPlain, CtxEmpty}}
    \cup {<<QuoteOperandTemplate(q), c>> : q \in {<<"'">>, <<"\"">>, <<"'", "'">>},
                                           c \in {CtxPlain, CtxEmpty}}
    \cup {<<t, c>> : t \in {VarTemplate(N_x), RawChainTemplate(N_x, <<>>)},
                     c \in {CtxSelfRaw, CtxPlain}}
    \cup {<<ChainTemplate(N_x, ch), c>> : ch \in Chains, c \in {CtxChainWords, CtxChainMarkup}}
    \cup {<<RawChainTemplate(N_x, ch), c>> : ch \in Chains, c \in {CtxChainWords}}

\* files of the template directory
FN_a == <<"a">>
FN_f == <<"f">>
FN_p == <<"p">>
FN_e == <<"e">>
FN_c == <<"c">>
FN_base == <<"b">>
FN_drive == <<"C", ":">>
FC_a == <<"A">> \o VarTemplate(N_x)
FC_f == ChainTemplate(N_x, <<N_reverse>>)
FC_p == IF_OPEN \o N_x \o <<" ", "=", "=", " ", "'">> \o CLOSE \o <<"a">> \o IF_END
FC_e == IF_OPEN \o N_x \o CLOSE
FC_c == EXTENDS_OPEN \o <<"\"">> \o FN_base \o <<"\"">> \o CLOSE
        \o BLOCK_OPEN \o <<"t">> \o CLOSE \o <<"C">> \o BLOCK_END
FC_base == <<"[">> \o BLOCK_OPEN \o <<"t">> \o CLOSE \o <<"B">> \o BLOCK_END \o <<"]">>
\* layout files: g extends c extends b, s extends b, h extends m extends b
BN_t == <<"t">>
FN_g == <<"g">>
FN_s == <<"s">>
FN_m == <<"m">>
FN_h == <<"h">>
FN_u == <<"u">>
FN_v == <<"v">>
ExtendsText(parent) == EXTENDS_OPEN \o <<"\"">> \o parent \o <<"\"">> \o CLOSE
BlockText(name, content) == BLOCK_OPEN \o name \o CLOSE \o content \o BLOCK_END
FC_g == ExtendsText(FN_c) \o BlockText(BN_t, <<"G">> \o SUPER)
FC_s == ExtendsText(FN_base) \o BlockText(BN_t, <<"S">> \o SUPER)
FC_m == ExtendsText(FN_base) \o <<"M">>
FC_h == ExtendsText(FN_m) \o BlockText(BN_t, <<"H">>)
\* a block that is never closed, a closing tag that closes nothing
FC_u == <<"U">> \o BLOCK_OPEN \o BN_t \o CLOSE \o <<"X">>
FC_v == <<"V">> \o BLOCK_END

TheFS ==
    [dir_ok |-> TRUE,
     files |-> (FN_a :> FileOf(FC_a)) @@ (FN_f :> FileOf(FC_f)) @@ (FN_p :> FileOf(FC_p))
               @@ (FN_e :> FileOf(FC_e)) @@ (FN_c :> FileOf(FC_c))
               @@ (FN_base :> FileOf(FC_base)) @@ (FN_drive :> FileOf(<<"d">>))
               @@ (FN_g :> FileOf(FC_g)) @@ (FN_s :> FileOf(FC_s)) @@ (FN_m :> FileOf(FC_m))
               @@ (FN_h :> FileOf(FC_h)) @@ (FN_u :> FileOf(FC_u)) @@ (FN_v :> FileOf(FC_v))]

\* an engine after register_filter("rev", ..) and register_filter("exc", ..)
WithFilters(E) == register_filter(register_filter(E, N_reverse, "reverse"), N_exclaim, "exclaim")

RenderEngines == {new(o) : o \in MacroOrders} \cup {WithFilters(new(o)) : o \in MacroOrders}

\* an engine after register_filter("upper", ..): a closure under the name
\* of a built-in filter
WithOverride(E) == register_filter(E, S_upper, "reverse")

OverrideEngines == {WithOverride(WithFilters(new(o))) : o \in MacroOrders}

\* ---------------------------------------------------------- state machine
VARIABLES engine, fs, call, par, ncalls

vars == <<engine, fs, call, par, ncalls>>

\* the last completed call on the engine
Call(op, name, ctx, before, result) ==
    [op |-> op, name |-> name, ctx |-> ctx, before |-> before, result |-> result]
NoCall(E) == Call("none", <<>>, EmptyMap, E, Ok(<<>>))

\* no parallel call in progress
Idle == [op |-> "idle", inputs |-> <<>>, ctx |-> EmptyMap, workers |-> <<>>,
         order |-> <<>>, next |-> 1, results |-> <<>>, ret |-> <<>>]

\* engine.render_string(template, ctx)
RenderString(template, ctx) ==
    LET out == render_string(engine, fs, template, ctx)
    IN  /\ engine' = out.e
        /\ call' = Call("render_string", template, ctx, engine, out.r)
        /\ ncalls' = ncalls + 1
        /\ UNCHANGED <<fs, par>>

InitRender ==
    /\ engine \in RenderEngines \cup OverrideEngines
    /\ fs = TheFS
    /\ call = NoCall(engine)
    /\ par = Idle
    /\ ncalls = 0

RenderOnce == \E c \in RenderCases : ncalls = 0 /\ RenderString(c[1], c[2])

NextRender == RenderOnce

SpecRender == InitRender /\ [][NextRender]_vars

\* ------------------------------------------------- the engine's public API
\* calls made on one engine
MaxCalls == 2

N_first == <<"f", "i", "r", "s", "t">>
N_fr == <<"f", "r">>
N_hello == <<"h", "e", "l", "l", "o">>
T_bonjour == <<"b", "o", "n", "j", "o", "u", "r">>

\* templates given to render_string through the API
T_macro_def == MACRO_OPEN \o <<"m", "(", ")">> \o CLOSE \o <<"x">> \o MACRO_END
T_plain == <<"a", " ", "{", "b", "}">>
T_plain_call == <<"a", "m", "(", ")">>
T_plain_paren == <<"m", "(">>
T_hello == T_OPEN \o <<"\"">> \o N_hello \o <<"\"">> \o CLOSE
\* a complete macro definition followed by one that is never closed
T_macro_unclosed == T_macro_def \o MACRO_OPEN \o <<"n">>
ApiTemplates == {T_macro_def, T_plain, T_plain_call, T_plain_paren, T_hello, T_macro_unclosed}

\* names given to load_template
LN_missing == <<"z">>
LN_dotdot == <<".", ".", "/", "a">>
LN_inner_dotdot == <<"a", ".", ".", "b">>
LN_slash == <<"/", "a">>
LN_backslash == <<"\\", "a">>
LN_drive_path == <<"C", ":", "a">>
LN_drive_other == <<"D", ":">>
LoadNames == {FN_a, LN_missing, LN_dotdot, LN_inner_dotdot, LN_slash, LN_backslash,
              FN_drive, LN_drive_path, LN_drive_other}

RenderNames == {FN_a, FN_c, FN_e}

Init ==
    /\ engine \in {new(o) : o \in MacroOrders}
    /\ fs = TheFS
    /\ call = NoCall(engine)
    /\ par = Idle
    /\ ncalls = 0

\* engine.register_filter(name, closure)
RegisterFilter ==
    /\ ncalls < MaxCalls
    /\ engine' = register_filter(engine, N_reverse, "reverse")
    /\ call' = Call("register_filter", N_reverse, EmptyMap, engine, Ok(<<>>))
    /\ ncalls' = ncalls + 1
    /\ UNCHANGED <<fs, par>>

\* engine.register_helper(name, closure)
RegisterHelper ==
    /\ ncalls < MaxCalls
    /\ engine' = register_helper(engine, N_first, "first")
    /\ call' = Call("register_helper", N_first, EmptyMap, engine, Ok(<<>>))
    /\ ncalls' = ncalls + 1
    /\ UNCHANGED <<fs, par>>

\* engine.set_translations(locale, table)
SetTranslations ==
    /\ ncalls < MaxCalls
    /\ engine' = set_translations(engine, N_fr, N_hello :> T_bonjour)
    /\ call' = Call("set_translations", N_fr, EmptyMap, engine, Ok(<<>>))
    /\ ncalls' = ncalls + 1
    /\ UNCHANGED <<fs, par>>

\* engine.set_locale(locale)
SetLocale ==
    /\ ncalls < MaxCalls
    /\ engine' = set_locale(engine, N_fr)
    /\ call' = Call("set_locale", N_fr, EmptyMap, engine, Ok(<<>>))
    /\ ncalls' = ncalls + 1
    /\ UNCHANGED <<fs, par>>

\* engine.render_string(template, ctx) with the API's templates
RenderStringCall ==
    \E t \in ApiTemplates : ncalls < MaxCalls /\ RenderString(t, CtxPlain)

\* engine.load_template(name)
LoadTemplate ==
    \E name \in LoadNames :
        LET out == load_template(engine, fs, name)
        IN  /\ ncalls < MaxCalls
            /\ engine' = out.e
            /\ call' = Call("load_template", name, EmptyMap, engine, out.r)
            /\ ncalls' = ncalls + 1
            /\ UNCHANGED <<fs, par>>

\* engine.render(template_name, ctx)
Render ==
    \E name \in RenderNames :
        LET out == render(engine, fs, name, CtxPlain)
        IN  /\ ncalls < MaxCalls
            /\ engine' = out.e
            /\ call' = Call("render", name, CtxPlain, engine, out.r)
            /\ ncalls' = ncalls + 1
            /\ UNCHANGED <<fs, par>>

Next ==
    \/ RegisterFilter
    \/ RegisterHelper
    \/ SetTranslations
    \/ SetLocale
    \/ RenderStringCall
    \/ LoadTemplate
    \/ Render

Spec == Init /\ [][Next]_vars

\* ------------------------------------------------------- renders by name
\* renders made one after the other on one engine
MaxRenders == 2

LayoutNames == {FN_base, FN_c, FN_g, FN_s, FN_m, FN_h, FN_u, FN_v}

InitLayout ==
    /\ engine \in {new(o) : o \in MacroOrders}
    /\ fs = TheFS
    /\ call = NoCall(engine)
    /\ par = Idle
    /\ ncalls = 0

\* engine.render(template_name, ctx) on a template of the layout files
RenderLayout ==
    \E name \in LayoutNames :
        LET out == render(engine, fs, name, CtxPlain)
        IN  /\ ncalls < MaxRenders
            /\ engine' = out.e
            /\ call' = Call("render", name, CtxPlain, engine, out.r)
            /\ ncalls' = ncalls + 1
            /\ UNCHANGED <<fs, par>>

NextLayout == RenderLayout

SpecLayout == InitLayout /\ [][NextLayout]_vars

\* ------------------------------------------- caches and the file system
\* calls and file changes made one after the other
MaxOps == 4

\* a second version of the file a
FC_a2 == <<"Z">> \o VarTemplate(N_x)
Versions == {FC_a, FC_a2}

InitCache ==
    /\ engine \in {new(o) : o \in MacroOrders}
    /\ fs = TheFS
    /\ call = NoCall(engine)
    /\ par = Idle
    /\ ncalls = 0

\* a call on the engine that leaves the file system as it is
EngineCall(op, name, out) ==
    /\ ncalls < MaxOps
    /\ engine' = out.e
    /\ call' = Call(op, name, CtxPlain, engine, out.r)
    /\ ncalls' = ncalls + 1
    /\ UNCHANGED <<fs, par>>

\* a change of the template directory made outside the engine, at a time
\* later than every modification time so far
FileChange(op, name, F) ==
    /\ ncalls < MaxOps
    /\ fs' = F
    /\ call' = Call(op, name, EmptyMap, engine, Ok(<<>>))
    /\ ncalls' = ncalls + 1
    /\ UNCHANGED <<engine, par>>

\* engine.load_template("a")
CacheLoad == EngineCall("load_template", FN_a, load_template(engine, fs, FN_a))

\* engine.load_template_mmap("a")
CacheLoadMmap == EngineCall("load_template_mmap", FN_a, load_template_mmap(engine, fs, FN_a))

\* engine.render("a", ctx)
CacheRender == EngineCall("render", FN_a, render(engine, fs, FN_a, CtxPlain))

\* engine.render_v040("a", ctx)
CacheRenderV040 == EngineCall("render_v040", FN_a, render_v040(engine, fs, FN_a, CtxPlain))

\* engine.enable_hot_reload()
EnableHotReload == EngineCall("enable_hot_reload", <<>>, ER(enable_hot_reload(engine), Ok(<<>>)))

\* engine.disable_hot_reload()
DisableHotReload ==
    EngineCall("disable_hot_reload", <<>>, ER(disable_hot_reload(engine), Ok(<<>>)))

\* the file a is written with the other version
WriteFile ==
    \E content \in Versions :
        /\ FN_a \in DOMAIN fs.files => fs.files[FN_a].content # content
        /\ FileChange("write_file", FN_a, write_file(fs, FN_a, content, ncalls + 2))

\* the file a is deleted
RemoveFile ==
    /\ FN_a \in DOMAIN fs.files
    /\ FileChange("remove_file", FN_a, remove_file(fs, FN_a))

NextCache ==
    \/ CacheLoad
    \/ CacheLoadMmap
    \/ CacheRender
    \/ CacheRenderV040
    \/ EnableHotReload
    \/ DisableHotReload
    \/ WriteFile
    \/ RemoveFile

SpecCache == InitCache /\ [][NextCache]_vars

\* names given to compile_to_bytecode
BytecodeNames == {FN_a, LN_missing}

\* engine.enable_bytecode_cache(enabled)
EnableBytecodeCache ==
    \E enabled \in BOOLEAN :
        EngineCall("enable_bytecode_cache", <<>>,
                   ER(enable_bytecode_cache(engine, enabled), Ok(<<>>)))

\* engine.compile_to_bytecode(template_name)
CompileToBytecode ==
    \E name \in BytecodeNames :
        EngineCall("compile_to_bytecode", name, compile_to_bytecode(engine, fs, name))

\* engine.compile_to_bytecode_uncached("a")
CompileToBytecodeUncached ==
    EngineCall("compile_to_bytecode_uncached", FN_a,
               compile_to_bytecode_uncached(engine, fs, FN_a))

NextBytecode ==
    \/ EnableBytecodeCache
    \/ CompileToBytecode
    \/ CompileToBytecodeUncached
    \/ EnableHotReload
    \/ CacheRenderV040
    \/ WriteFile

SpecBytecode == InitCache /\ [][NextBytecode]_vars

\* ------------------------------------------------- loads by template name
\* a file outside the template directory, named from inside it
FC_outside == <<"O">>
\* files that include and extend it
FN_i == <<"i">>
FN_q == <<"q">>
FC_i == INCLUDE_OPEN \o <<"\"">> \o LN_dotdot \o <<"\"">> \o CLOSE
FC_q == ExtendsText(LN_dotdot) \o BlockText(BN_t, <<"Q">>)

PathFS ==
    [TheFS EXCEPT !.files = @ @@ (LN_dotdot :> FileOf(FC_outside))
                              @@ (FN_i :> FileOf(FC_i)) @@ (FN_q :> FileOf(FC_q))]

TemplateNames == LoadNames \cup {FN_i, FN_q}

InitPaths ==
    /\ engine \in {new(o) : o \in MacroOrders}
    /\ fs = PathFS
    /\ call = NoCall(engine)
    /\ par = Idle
    /\ ncalls = 0

\* a call made with a template name
PathCall(op, name, out) ==
    /\ ncalls < MaxCalls
    /\ engine' = out.e
    /\ call' = Call(op, name, CtxPlain, engine, out.r)
    /\ ncalls' = ncalls + 1
    /\ UNCHANGED <<fs, par>>

\* engine.load_template(name)
PathLoad == \E name \in TemplateNames : PathCall("load_template", name, load_template(engine, fs, name))

\* engine.load_template_mmap(name)
PathLoadMmap == \E name \in TemplateNames : PathCall("load_template_mmap", name, load_template_mmap(engine, fs, name))

\* engine.render(name, ctx): the template, its includes and its parents
PathRender == \E name \in TemplateNames : PathCall("render", name, render(engine, fs, name, CtxPlain))

\* engine.render_v040(name, ctx)
PathRenderV040 == \E name \in TemplateNames : PathCall("render_v040", name, render_v040(engine, fs, name, CtxPlain))

\* engine.compile_to_bytecode(name)
PathCompile == \E name \in TemplateNames : PathCall("compile_to_bytecode", name, compile_to_bytecode(engine, fs, name))

\* engine.load_template_async(name).await
PathLoadAsync == \E name \in TemplateNames : PathCall("load_template_async", name, load_template_async(engine, fs, name))

\* engine.enable_hot_reload()
PathHotReload == PathCall("enable_hot_reload", <<>>, ER(enable_hot_reload(engine), Ok(<<>>)))

NextPaths ==
    \/ PathLoad
    \/ PathLoadMmap
    \/ PathRender
    \/ PathRenderV040
    \/ PathCompile
    \/ PathLoadAsync
    \/ PathHotReload

SpecPaths == InitPaths /\ [][NextPaths]_vars

\* ----------------------------------------------------- diagnostics calls
\* longest template, in directives
MaxTokens == 3

D_if == IF_OPEN \o N_b \o CLOSE
D_for == FOR_OPEN \o N_x \o IN_SEP \o N_items \o CLOSE
D_var == VarTemplate(N_zz) \o <<"\n">>
DiagnosticTokens == {D_if, D_for, IF_END, FOR_END, D_var}
DiagnosticTemplates == SeqsUpTo(DiagnosticTokens, MaxTokens)

InitDiagnostics ==
    /\ engine \in RenderEngines
    /\ fs = TheFS
    /\ call = NoCall(engine)
    /\ par = Idle
    /\ ncalls = 0

\* engine.get_diagnostics_for_editor(template, ctx)
GetDiagnostics ==
    \E toks \in DiagnosticTemplates :
        /\ ncalls = 0
        /\ call' = Call("get_diagnostics_for_editor", Concat(toks), CtxPlain, engine,
                        get_diagnostics_for_editor(engine, Concat(toks), CtxPlain))
        /\ ncalls' = 1
        /\ UNCHANGED <<engine, fs, par>>

NextDiagnostics == GetDiagnostics

SpecDiagnostics == InitDiagnostics /\ [][NextDiagnostics]_vars

\* ------------------------------------------------- compiled template calls
\* TemplateCompiler::compile(template), then engine.render_compiled of the
\* compiled template
compile_and_render(instructions, template, ctx) ==
    IF ~IsOk(instructions) THEN instructions
    ELSE render_compiled([name |-> template, instructions |-> instructions.val], ctx)

\* the (template, context) pairs that are compiled and executed
CompiledCases ==
    {<<ForTemplate(N_x, A, B), c>> : A \in ArrayPaths, B \in {B_lit, B_var},
                                      c \in {CtxLoop, CtxDeep, CtxFalsy, CtxEmpty}}
    \cup {<<NestedIfTemplate(a, b), c>> : a \in NestNames, b \in NestNames,
                                           c \in {CtxTruthy, CtxFalsy, CtxMixed}}
    \cup {<<IfTemplate(n), c>> : n \in CondNames, c \in {CtxTruthy, CtxFalsy, CtxNested, CtxEmpty}}

InitCompiled ==
    /\ engine \in RenderEngines
    /\ fs = TheFS
    /\ call = NoCall(engine)
    /\ par = Idle
    /\ ncalls = 0

\* engine.render_compiled(&compiled, ctx) on the bytecode of a template
RenderCompiled ==
    \E c \in CompiledCases :
        /\ ncalls = 0
        /\ call' = Call("render_compiled", c[1], c[2], engine,
                        compile_and_render(compile(c[1]), c[1], c[2]))
        /\ ncalls' = 1
        /\ UNCHANGED <<engine, fs, par>>

NextCompiled == RenderCompiled

SpecCompiled == InitCompiled /\ [][NextCompiled]_vars

\* ---------------------------------------------------- arithmetic filters
\* the accumulator texts and the arguments of add:N and multiply:N
V_half == <<"4", "6", "1", "1", "6", "8", "6", "0", "1", "8", "4", "2", "7", "3", "8", "7", "9", "0", "4">>
ArithValues ==
    {<<"5">>, <<"-", "3">>, <<"0">>, <<"a", "b">>, I64_MAX_MAG, <<"-">> \o I64_MIN_MAG,
     V_half, I64_MIN_MAG}
AddArgs == {<<"1">>, <<"-", "1">>, <<"q">>, I64_MAX_MAG, <<"-">> \o I64_MIN_MAG, TWO_64_MAG}
MultiplyArgs == {<<"2">>, <<"-", "1">>, <<"q">>, <<"1", "0">>, <<"0">>, TWO_64_MAG}

InitArith ==
    /\ engine \in RenderEngines
    /\ fs = TheFS
    /\ call = NoCall(engine)
    /\ par = Idle
    /\ ncalls = 0

\* apply_single_filter(value, filter_expr) with the result of the arm
ApplyFilter(value, filter_expr, result) ==
    /\ ncalls = 0
    /\ call' = Call("apply_single_filter", filter_expr, N_x :> VString(value), engine, result)
    /\ ncalls' = 1
    /\ UNCHANGED <<engine, fs, par>>

\* value|add:N in a build with or without overflow checks
ApplyAdd ==
    \E value \in ArithValues, N \in AddArgs, overflow_checks \in BOOLEAN :
        ApplyFilter(value, S_add \o <<":">> \o N, add_arm(value, <<N>>, overflow_checks))

\* value|multiply:N in a build with or without overflow checks
ApplyMultiply ==
    \E value \in ArithValues, N \in MultiplyArgs, overflow_checks \in BOOLEAN :
        ApplyFilter(value, S_multiply \o <<":">> \o N,
                    multiply_arm(value, <<N>>, overflow_checks))

NextArith == ApplyAdd \/ ApplyMultiply

SpecArith == InitArith /\ [][NextArith]_vars

\* ------------------------------------------------------------ debug calls
InitDebug ==
    /\ engine \in RenderEngines
    /\ fs = TheFS
    /\ call = NoCall(engine)
    /\ par = Idle
    /\ ncalls = 0

\* engine.render_string_with_debug(template, ctx)
RenderStringWithDebug ==
    \E c \in RenderCases :
        /\ ncalls = 0
        /\ call' = Call("render_string_with_debug", c[1], c[2], engine,
                        render_string_with_debug(engine, c[1], c[2]))
        /\ ncalls' = 1
        /\ UNCHANGED <<engine, fs, par>>

NextDebug == RenderStringWithDebug

SpecDebug == InitDebug /\ [][NextDebug]_vars

\* -------------------------------------------------------- parallel calls
\* longest input list of a parallel call
MaxList == 2

Running == [kind |-> "Running", val |-> <<>>, err |-> "None"]
Pending == [kind |-> "Pending", val |-> <<>>, err |-> "None"]

ParallelNames == {FN_a, FN_f, FN_p, FN_e}
NameLists == SeqsUpTo(ParallelNames, MaxList)

\* CompiledTemplate values a caller holds, from compile_to_bytecode
CompiledTemplates ==
    {compile_to_bytecode(new(<<>>), TheFS, n).r.val : n \in {FN_a, FN_e}}
CompiledLists == SeqsUpTo(CompiledTemplates, MaxList)

\* the spawning half of render_parallel / render_compiled_parallel: one
\* handle per input, in input order
spawn_all(op, inputs, ctx) ==
    [op |-> op, inputs |-> inputs, ctx |-> ctx,
     workers |-> [i \in 1..Len(inputs) |-> Running],
     order |-> <<>>, next |-> 1, results |-> <<>>,
     ret |-> IF inputs = <<>> THEN Ok(<<>>) ELSE Pending]

\* the closure a worker thread runs
worker_body(p, i, order) ==
    IF p.op = "render_parallel"
    THEN render(new(order), fs, p.inputs[i], p.ctx).r
    ELSE execute(p.inputs[i].instructions, p.ctx)

\* handle.join().map_err(|_| Render("Thread panic"))?? on the finished
\* worker p.next, and the push or the return that follows
join_partial(p) ==
    LET r == p.workers[p.next]
    IN  IF r.kind = "Ok"
        THEN [p EXCEPT !.results = Append(@, r.val), !.next = @ + 1,
                       !.ret = IF p.next = Len(p.workers)
                               THEN Ok(Append(p.results, r.val)) ELSE Pending]
        ELSE [p EXCEPT !.next = @ + 1,
                       !.ret = IF p.next = Len(p.workers) THEN Ok(p.results) ELSE Pending]

join_next(p) ==
    LET r == p.workers[p.next]
    IN  IF r.kind = "Panic" THEN [p EXCEPT !.ret = Err("Render")]
        ELSE IF r.kind = "Err" THEN [p EXCEPT !.ret = r]
        ELSE [p EXCEPT !.results = Append(@, r.val), !.next = @ + 1,
                       !.ret = IF p.next = Len(p.workers)
                               THEN Ok(Append(p.results, r.val)) ELSE Pending]

InitParallel ==
    /\ engine \in RenderEngines
    /\ fs = TheFS
    /\ call = NoCall(engine)
    /\ par = Idle
    /\ ncalls = 0

\* engine.render_parallel(template_names, ctx) up to the spawning of the
\* workers
RenderParallel ==
    \E names \in NameLists :
        /\ par.op = "idle"
        /\ par' = spawn_all("render_parallel", names, CtxPlain)
        /\ UNCHANGED <<engine, fs, call, ncalls>>

\* engine.render_compiled_parallel(compiled_templates, ctx) up to the
\* spawning of the workers
RenderCompiledParallel ==
    \E templates \in CompiledLists :
        /\ par.op = "idle"
        /\ par' = spawn_all("render_compiled_parallel", templates, CtxPlain)
        /\ UNCHANGED <<engine, fs, call, ncalls>>

\* a worker thread runs to completion; a worker that never returns never
\* finishes
WorkerFinish ==
    \E i \in 1..Len(par.workers), order \in MacroOrders :
        LET r == worker_body(par, i, order)
        IN  /\ par.workers[i] = Running
            /\ r.kind # "Hang"
            /\ par' = [par EXCEPT !.workers[i] = r, !.order = Append(@, i)]
            /\ UNCHANGED <<engine, fs, call, ncalls>>

\* the calling thread joins the next handle, in input order
JoinHandle ==
    /\ par.ret = Pending
    /\ par.next <= Len(par.workers)
    /\ par.workers[par.next] # Running
    /\ par' = join_next(par)
    /\ UNCHANGED <<engine, fs, call, ncalls>>

NextParallel ==
    \/ RenderParallel
    \/ RenderCompiledParallel
    \/ WorkerFinish
    \/ JoinHandle

SpecParallel == InitParallel /\ [][NextParallel]_vars

\* ------------------------------------------------- properties, SpecRender
Rendered(template) == call.op = "render_string" /\ call.name = template

MarkupChars == {"<", ">", "\"", "'"}

\* C1: the output of render_string("{{p}}", ctx) contains none of the
\* characters < > " ' literally, whatever text the context values contain.
C1_NoLiteralMarkup ==
    \A p \in PathNames :
        (Rendered(VarTemplate(p)) /\ IsOk(call.result))
            => \A i \in 1..Len(call.result.val) : call.result.val[i] \notin MarkupChars

\* two contexts that agree on the name n
AgreeOn(c1, c2, n) ==
    /\ HasVar(c1, n) <=> HasVar(c2, n)
    /\ HasVar(c1, n) => c1[n] = c2[n]

SaidContexts == {CtxInjectA, CtxInjectB, CtxPlain, CtxEmpty}

\* C2: the output of render_string("User said: {{n}}", ctx) depends only on
\* ctx[n]: every context that agrees with ctx on n gives the same output.
C2_DependsOnlyOnN ==
    Rendered(SaidTemplate(N_n))
        => \A c2 \in SaidContexts :
               AgreeOn(call.ctx, c2, N_n)
                   => render_string(call.before, fs, SaidTemplate(N_n), c2).r = call.result

\* render_string(B, ctx with x bound to a_i) over the elements, concatenated
RECURSIVE BodyPerElement(_, _, _, _, _)
BodyPerElement(E, B, ctx, x, elements) ==
    IF elements = <<>> THEN Ok(<<>>)
    ELSE LET first == render_string(E, fs, B, ctx_set(ctx, x, Head(elements))).r
             rest == BodyPerElement(E, B, ctx, x, Tail(elements))
         IN  IF ~IsOk(first) THEN first
             ELSE IF ~IsOk(rest) THEN rest
             ELSE Ok(first.val \o rest.val)

\* C7: render_string("{{for x in A}}" + B + "{{/for}}", ctx) equals the
\* concatenation, in element order, of render_string(B, ctx[x := a_i]).
C7_LoopIsConcatenation ==
    \A B \in LoopBodies :
        (/\ Rendered(ForTemplate(N_x, N_items, B))
         /\ HasVar(call.ctx, N_items)
         /\ call.ctx[N_items].tag = "Array")
            => call.result = BodyPerElement(call.before, B, call.ctx, N_x,
                                            call.ctx[N_items].items)

\* truthiness as the specification lists it
Truthy(v) ==
    \/ v.tag = "Bool" /\ v.b
    \/ v.tag = "String" /\ Len(v.s) > 0
    \/ v.tag = "Number" /\ v.n # 0
    \/ v.tag = "Array" /\ Len(v.items) > 0
    \/ v.tag = "Object" /\ DOMAIN v.fields # {}

\* the value a name or dotted path resolves to in ctx: [found, v]
Resolve(ctx, n) ==
    LET parts == Split(n, ".")
    IN  IF HasVar(ctx, parts[1]) THEN walk_path(ctx[parts[1]], Tail(parts))
        ELSE [found |-> FALSE, v |-> VString(<<>>)]

TruthyIn(ctx, n) == Resolve(ctx, n).found /\ Truthy(Resolve(ctx, n).v)

\* C8: render_string("{{if n}}Y{{/if}}", ctx) is "Y" when ctx[n] is truthy
\* and "" otherwise; a name or path that does not resolve is falsy, not an
\* error.
C8_ConditionalIffTruthy ==
    \A n \in CondNames :
        Rendered(IfTemplate(n))
            => call.result = Ok(IF TruthyIn(call.ctx, n) THEN <<"Y">> ELSE <<>>)

\* a truthy String "0" or a truthy negative Number selected the block
C8_Witness ==
    \E n \in {N_s, N_k} :
        /\ Rendered(IfTemplate(n))
        /\ call.ctx = CtxTruthy
        /\ call.result = Ok(<<"Y">>)

\* one filter step: the filter when it is built in or registered, the
\* identity otherwise
FilterStep(custom_filters, value, f) ==
    IF Split(f, ":")[1] \in BuiltinFilters \cup DOMAIN custom_filters
    THEN apply_single_filter(custom_filters, value, f)
    ELSE value

\* fk(...f2(f1(value))...)
RECURSIVE Composed(_, _, _)
Composed(custom_filters, value, chain) ==
    IF chain = <<>> THEN value
    ELSE FilterStep(custom_filters,
                    Composed(custom_filters, value, SubSeq(chain, 1, Len(chain) - 1)),
                    chain[Len(chain)])

HtmlProducing == {S_markdown, S_highlight}
PlainChains == {ch \in Chains : \A i \in 1..Len(ch) : ch[i] \notin HtmlProducing}

\* C9: the value substituted for x|f1|...|fk is fk(...f2(f1(str(x)))...),
\* built-in and custom filters alike, an unknown filter being the identity.
C9_LeftToRight ==
    /\ \A ch \in Chains :
           Rendered(RawChainTemplate(N_x, ch))
               => call.result = Ok(Composed(call.before.custom_filters,
                                            get_string_or_default(call.ctx, N_x), ch))
    /\ \A ch \in PlainChains :
           Rendered(ChainTemplate(N_x, ch))
               => call.result = Ok(html_escape(Composed(call.before.custom_filters,
                                                        get_string_or_default(call.ctx, N_x), ch)))

\* a chain of a built-in and a registered filter whose two orders differ
C9_Witness ==
    /\ Rendered(RawChainTemplate(N_x, <<F_truncate_2, N_reverse>>))
    /\ N_reverse \in DOMAIN call.before.custom_filters
    /\ call.result = Ok(<<".", ".", ".", "b", "a">>)
    /\ call.result # Ok(Composed(call.before.custom_filters,
                                 get_string_or_default(call.ctx, N_x),
                                 <<N_reverse, F_truncate_2>>))

\* C10: the result of {{x|f1|...|fk}} is HTML-escaped if and only if the
\* last filter fk is not HTML-producing (markdown, highlight).
C10_EscapedIffLastNotHtml ==
    \A ch \in Chains :
        Rendered(ChainTemplate(N_x, ch))
            => LET value == apply_filters(call.before.custom_filters,
                                          ChainExpr(N_x, ch), call.ctx)
               IN  call.result = Ok(IF Split(ch[Len(ch)], ":")[1] \in HtmlProducing
                                    THEN value ELSE html_escape(value))

\* C15: render_string returns a Parse error for every template that holds
\* an opening {{ with no }} after it, whatever kind of directive it starts;
\* it never returns Ok with the unclosed text left in the output.
C15_UnclosedIsParseError ==
    \A t \in UnclosedTemplates : Rendered(t) => call.result = Err("Parse")

\* the body B once for each element of the Array n resolves to in ctx, the
\* empty string when n is missing or resolves to no Array
OncePerElement(ctx, n, B) ==
    IF Resolve(ctx, n).found /\ Resolve(ctx, n).v.tag = "Array"
    THEN Concat([i \in 1..Len(Resolve(ctx, n).v.items) |-> B])
    ELSE <<>>

\* C17: {{for x in A}}-{{/for}} resolves A as a dotted path (Objects by key,
\* Arrays by decimal index); it renders the body once per element of the
\* Array the path ends on, and the empty string when the path is missing or
\* ends on a value that is no Array.
C17_LoopOverPath ==
    \A A \in ArrayPaths :
        Rendered(ForTemplate(N_x, A, B_lit))
            => call.result = Ok(OncePerElement(call.ctx, A, B_lit))

\* what {{if a}}X{{if b}}Y{{/if}}Z{{/if}} is to render to
NestedIfOutput(ctx, a, b) ==
    IF ~TruthyIn(ctx, a) THEN <<>>
    ELSE IF TruthyIn(ctx, b) THEN <<"X", "Y", "Z">>
    ELSE <<"X", "Z">>

\* C18: in {{if a}}X{{if b}}Y{{/if}}Z{{/if}} nothing between the outer
\* {{if a}} and its own {{/if}} is emitted when a is falsy; when a is truthy
\* X and Z are emitted, and Y exactly when b is truthy.
C18_NestedConditionals ==
    \A a \in NestNames, b \in NestNames :
        Rendered(NestedIfTemplate(a, b))
            => call.result = Ok(NestedIfOutput(call.ctx, a, b))

\* equality as the specification states it: values of one variant are
\* compared structurally, values of different variants by their strings
StructurallyEqual(l, r) ==
    IF l.tag = r.tag THEN l = r ELSE value_to_string(l) = value_to_string(r)

\* C20: {{if L == R}}Y{{/if}} renders Y exactly when the two values are
\* equal, and {{if L != R}}Y{{/if}} exactly when they are not: values of
\* the same variant are compared structurally (Arrays and Objects are equal
\* only with the same elements, not merely the same length), values of
\* different variants are equal exactly when their stringifications are.
C20_StructuralEquality ==
    \A L \in EqNames, R \in EqNames, op \in EqOps :
        Rendered(EqTemplate(L, op, R))
            => call.result
                   = Ok(IF StructurallyEqual(call.ctx[L], call.ctx[R]) <=> (op = <<"=", "=">>)
                        THEN <<"Y">> ELSE <<>>)

\* the argument of a macro call is a string literal or a variable the
\* context binds
ArgResolves(ctx, arg) == StartsWithQuote(arg) \/ HasVar(ctx, arg)

\* the expansion of {{m(arg)}}: the body [{{a}}] with a bound to the argument
MacroExpansion(ctx, arg) ==
    <<"[">> \o (IF StartsWithQuote(arg) THEN TrimQuotes(arg) ELSE ctx[arg].s) \o <<"]">>

\* C21: a macro call whose variable argument does not resolve is the only
\* occurrence left unexpanded: in {{m(a1)}}-{{m(a2)}} every occurrence whose
\* argument is a string literal or a bound variable is expanded, whatever
\* the other occurrence is.
C21_OtherOccurrencesExpanded ==
    \A a1 \in MacroArgs, a2 \in MacroArgs :
        Rendered(MacroCallsTemplate(a1, a2))
            => /\ ArgResolves(call.ctx, a1)
                      => /\ IsOk(call.result)
                         /\ StartsWith(call.result.val, MacroExpansion(call.ctx, a1) \o <<"-">>)
               /\ ArgResolves(call.ctx, a2)
                      => /\ IsOk(call.result)
                         /\ EndsWith(call.result.val, <<"-">> \o MacroExpansion(call.ctx, a2))

\* C26: render_string returns Ok or a structured TemplateError for every
\* template and context; no input, such as a condition operand that is a
\* single quote character, makes it abort with an out-of-range slice.
C26_NoAbort ==
    call.op = "render_string" => call.result.kind # "Panic"

\* C28: render_string terminates, with Ok or Err, for every template and
\* context in which no include, macro body or translation refers to itself:
\* the substitution loops of the raw and the escaped variables finish
\* whatever strings the context values contain.
C28_RenderTerminates ==
    call.op = "render_string" => call.result.kind # "Hang"

\* one filter step in which a registered closure takes precedence over a
\* built-in filter of the same name
OverridingStep(custom_filters, value, f) ==
    IF Split(f, ":")[1] \in DOMAIN custom_filters
    THEN custom_filter_or_value(
             call_custom_filter(custom_filters[Split(f, ":")[1]], value,
                                filter_args(Split(f, ":"))),
             value)
    ELSE FilterStep(custom_filters, value, f)

RECURSIVE OverridingChain(_, _, _)
OverridingChain(custom_filters, value, chain) ==
    IF chain = <<>> THEN value
    ELSE OverridingStep(custom_filters,
                        OverridingChain(custom_filters, value,
                                        SubSeq(chain, 1, Len(chain) - 1)),
                        chain[Len(chain)])

\* C16: after register_filter(name, f) with the name of a built-in filter,
\* every use of |name in a chain applies f, not the built-in.
C16_CustomOverridesBuiltin ==
    \A ch \in Chains :
        Rendered(RawChainTemplate(N_x, ch))
            => call.result = Ok(OverridingChain(call.before.custom_filters,
                                                get_string_or_default(call.ctx, N_x), ch))

\* ------------------------------------------------------- properties, Spec
\* the names validate_template_path is said to reject
RejectedName(name) ==
    \/ Contains(name, DOTDOT)
    \/ StartsWith(name, <<"/">>)
    \/ StartsWith(name, <<"\\">>)
    \/ (Len(name) >= 2 /\ name[2] = ":")

\* C3: load_template(name) returns a Security error for every name that
\* contains "..", begins with / or \, or whose first two characters are X:
\* (the two-character name X: included), whether or not a file exists at
\* that path and whatever the cache holds.
C3_SecurityError ==
    (call.op = "load_template" /\ RejectedName(call.name))
        => call.result = Err("Security")

BraceFree(s) == ~Contains(s, OPEN) /\ ~Contains(s, CLOSE)

\* C6: for every string s that contains neither {{ nor }}, render_string(s,
\* ctx) returns Ok(s) unchanged in every reachable engine state.
C6_BraceFreeUnchanged ==
    (call.op = "render_string" /\ BraceFree(call.name))
        => call.result = Ok(call.name)

\* C29: a render or render_string call that returns an error leaves the
\* engine as it was before the call: the macro table, the source cache and
\* the layout table are those of the state the call started from.
C29_ErrorLeavesEngineUnchanged ==
    (call.op \in {"render", "render_string"} /\ call.result.kind = "Err")
        => /\ engine.macros = call.before.macros
           /\ engine.cache = call.before.cache
           /\ engine.layouts = call.before.layouts

\* ------------------------------------------------- properties, SpecLayout
\* the layout files as written: the parent named and the blocks defined
LayoutTable ==
    (FN_base :> [parent |-> <<>>, blocks |-> (BN_t :> <<"B">>)])
    @@ (FN_c :> [parent |-> <<FN_base>>, blocks |-> (BN_t :> <<"C">>)])
    @@ (FN_g :> [parent |-> <<FN_c>>, blocks |-> (BN_t :> (<<"G">> \o SUPER))])
    @@ (FN_s :> [parent |-> <<FN_base>>, blocks |-> (BN_t :> (<<"S">> \o SUPER))])
    @@ (FN_m :> [parent |-> <<FN_base>>, blocks |-> EmptyMap])
    @@ (FN_h :> [parent |-> <<FN_m>>, blocks |-> (BN_t :> <<"H">>)])

\* an ancestor of the template declares the block
RECURSIVE AncestorDeclares(_, _)
AncestorDeclares(name, blk) ==
    /\ LayoutTable[name].parent # <<>>
    /\ \/ blk \in DOMAIN LayoutTable[LayoutTable[name].parent[1]].blocks
       \/ AncestorDeclares(LayoutTable[name].parent[1], blk)

\* the content the chain that starts at the template renders for the
\* block: the nearest definition, each {{super}} in it standing for the
\* content of the chain above
RECURSIVE ChainContent(_, _)
ChainContent(name, blk) ==
    LET above == IF LayoutTable[name].parent = <<>> THEN <<>>
                 ELSE ChainContent(LayoutTable[name].parent[1], blk)
    IN  IF blk \in DOMAIN LayoutTable[name].blocks
        THEN ReplaceAll(LayoutTable[name].blocks[blk], SUPER, above)
        ELSE above

\* C11: when render(T) resolves an extends chain of any depth, every block
\* an ancestor declares appears in the output with the content of the
\* nearest definition from T upwards, {{super}} standing for the content of
\* the chain above.
C11_ChainBlocks ==
    \A name \in DOMAIN LayoutTable :
        (call.op = "render" /\ call.name = name /\ AncestorDeclares(name, BN_t))
            => /\ IsOk(call.result)
               /\ Contains(call.result.val, <<"[">> \o ChainContent(name, BN_t) \o <<"]">>)

\* the layout files whose block delimiters are unbalanced: u opens a block
\* it never closes, v closes a block it never opened
UnbalancedNames == {FN_u, FN_v}

\* C19: rendering by name fails with a Parse error whenever the block
\* delimiters of the template are unbalanced: a {{block NAME}} with no
\* {{/block}}, and equally a {{/block}} with no {{block NAME}} before it.
C19_UnbalancedIsParseError ==
    \A name \in UnbalancedNames :
        (call.op = "render" /\ call.name = name) => call.result = Err("Parse")

\* -------------------------------------------------- properties, SpecCache
\* the template directory with the cached text of the name as its file
FsWithCached(F, E, name) == write_file(F, name, E.cache[name], 1)

\* the calls that load the template of a name
LoadingOps == {"load_template", "load_template_mmap"}

\* C12: with hot reload disabled, once load_template(name) has succeeded
\* every later load_template(name), load_template_mmap(name) and
\* render(name) uses the cached content and does not read the file,
\* whatever happened to the file; no cache entry changes.
C12_CacheServes ==
    [][(~engine.hot_reload_enabled)
        => /\ \A n \in DOMAIN engine.cache :
                  n \in DOMAIN engine'.cache /\ engine'.cache[n] = engine.cache[n]
           /\ (call'.op \in LoadingOps /\ call'.name \in DOMAIN engine.cache)
                  => /\ call'.result = Ok(engine.cache[call'.name])
                     /\ engine'.reads = engine.reads
           /\ (call'.op = "render" /\ call'.name \in DOMAIN engine.cache)
                  => /\ call'.result = render(engine, FsWithCached(fs, engine, call'.name),
                                               call'.name, call'.ctx).r
                     /\ engine'.reads = engine.reads]_vars

\* the file was rewritten or deleted after the load, and a later load, with
\* hot reload disabled, returned the text read the first time
C12_Witness ==
    /\ call.op \in LoadingOps
    /\ call.name = FN_a
    /\ ~call.before.hot_reload_enabled
    /\ FN_a \in DOMAIN call.before.cache
    /\ call.result = Ok(FC_a)
    /\ (FN_a \notin DOMAIN fs.files \/ fs.files[FN_a].content = FC_a2)

\* the engine without the cached source and bytecode of the name
WithoutCached(E, name) ==
    [E EXCEPT !.cache = MapRemove(@, {name}), !.bytecode_cache = MapRemove(@, {name})]

\* the render of the name by the same call from the present files
FreshRender(op, E, F, name, ctx) ==
    IF op = "render" THEN render(WithoutCached(E, name), F, name, ctx).r
    ELSE render_v040(WithoutCached(E, name), F, name, ctx).r

\* C13: with hot reload enabled, every render by name (render and
\* render_v040 alike) re-checks the modification time first, so the output
\* is never computed from content older than the present content of the
\* file.
C13_RenderRechecks ==
    (/\ call.op \in {"render", "render_v040"}
     /\ call.before.hot_reload_enabled
     /\ call.name \in DOMAIN fs.files)
        => call.result = FreshRender(call.op, call.before, fs, call.name, call.ctx)

\* ----------------------------------------------- properties, SpecBytecode
\* the step is a compile_to_bytecode(n) that succeeds with caching enabled
CompiledInStep(n) ==
    /\ call'.op = "compile_to_bytecode"
    /\ call'.name = n
    /\ IsOk(call'.result)
    /\ engine.bytecode_cache_enabled

\* the step is a render with hot reload enabled that finds the file of n
\* with no recorded modification time or with a later one
InvalidatedInStep(n) ==
    /\ call'.op = "render_v040"
    /\ call'.name = n
    /\ engine.hot_reload_enabled
    /\ n \in DOMAIN fs.files
    /\ (n \in DOMAIN engine.file_mtimes => fs.files[n].mtime > engine.file_mtimes[n])

\* C14: is_bytecode_cached(name) is true exactly when caching is enabled
\* and a compile_to_bytecode(name) has succeeded since it was enabled, with
\* no hot-reload invalidation of the name since; the cache is empty
\* whenever caching is disabled, and compile_to_bytecode_uncached never
\* changes it.
C14_BytecodeCached ==
    [][/\ ~engine'.bytecode_cache_enabled => engine'.bytecode_cache = EmptyMap
       /\ call'.op = "compile_to_bytecode_uncached"
              => engine'.bytecode_cache = engine.bytecode_cache
       /\ \A n \in BytecodeNames :
              is_bytecode_cached(engine', n)
                  <=> /\ engine'.bytecode_cache_enabled
                      /\ \/ CompiledInStep(n)
                         \/ is_bytecode_cached(engine, n) /\ ~InvalidatedInStep(n)]_vars

\* a compiled template was cached, and a render with hot reload enabled
\* dropped it
C14_Witness ==
    /\ call.op = "render_v040"
    /\ call.before.hot_reload_enabled
    /\ is_bytecode_cached(call.before, FN_a)
    /\ ~is_bytecode_cached(engine, FN_a)
    /\ engine.bytecode_cache_enabled

\* ----------------------------------------------- properties, SpecParallel
\* the engine after render(n, ctx) for every n of names, in order
RECURSIVE EngineAfter(_, _, _)
EngineAfter(E, names, ctx) ==
    IF names = <<>> THEN E
    ELSE EngineAfter(render(E, fs, Head(names), ctx).e, Tail(names), ctx)

\* the i-th element of [render(n, ctx) for n in names] on the engine E
SequentialRender(E, names, i, ctx) ==
    render(EngineAfter(E, SubSeq(names, 1, i - 1), ctx), fs, names[i], ctx).r

\* C4: render_parallel(L, ctx) equals, element by element, the list
\* [render(n, ctx) for n in L] produced sequentially by the engine it was
\* called on.
C4_ParallelEqualsSequential ==
    (par.op = "render_parallel" /\ IsOk(par.ret))
        => \A i \in 1..Len(par.inputs) :
               SequentialRender(engine, par.inputs, i, par.ctx) = Ok(par.ret.val[i])

Failed(r) == r.kind \in {"Err", "Panic"}

\* the error the call reports for a failed worker
Reported(r) == IF r.kind = "Panic" THEN Err("Render") ELSE r

\* C5: render_parallel and render_compiled_parallel return their results
\* in input order for every order in which the workers finish; if a worker
\* fails the call returns the error of the lowest-index failing input (a
\* panic as a Render error) and never a partial result list.
C5_InputOrderOrFirstError ==
    (par.op # "idle" /\ par.ret # Pending)
        => \/ /\ IsOk(par.ret)
              /\ Len(par.ret.val) = Len(par.inputs)
              /\ \A i \in 1..Len(par.inputs) :
                     \E o \in MacroOrders : worker_body(par, i, o) = Ok(par.ret.val[i])
           \/ \E k \in 1..Len(par.inputs) :
                 /\ \E o \in MacroOrders :
                        /\ Failed(worker_body(par, k, o))
                        /\ par.ret = Reported(worker_body(par, k, o))
                 /\ \A j \in 1..(k - 1), o \in MacroOrders : IsOk(worker_body(par, j, o))

\* the second worker failed first, the call reports the panic of the first
C5_Witness ==
    /\ par.op = "render_parallel"
    /\ par.inputs = <<FN_p, FN_e>>
    /\ par.order = <<2, 1>>
    /\ par.workers[2] = Err("Parse")
    /\ par.ret = Err("Render")

\* ------------------------------------------------ properties, SpecCompiled
Executed(template) == call.op = "render_compiled" /\ call.name = template

\* C23: executing the bytecode of {{for x in A}}-{{/for}} iterates: the
\* body is emitted once per element of the Array at path A, and not at all
\* when A is empty, missing or no Array.
C23_CompiledLoopIterates ==
    \A A \in ArrayPaths :
        Executed(ForTemplate(N_x, A, B_lit))
            => call.result = Ok(OncePerElement(call.ctx, A, B_lit))

\* C24: executing the bytecode of {{if a}}X{{if b}}Y{{/if}}Z{{/if}},
\* JumpIfFalsy branches past the matching /if: nothing between the outer if
\* and its own /if is emitted when a is falsy, and when a is truthy the body
\* is executed (Y exactly when b is truthy).
C24_CompiledJumpPastMatchingEnd ==
    \A a \in NestNames, b \in NestNames :
        Executed(NestedIfTemplate(a, b))
            => call.result = Ok(NestedIfOutput(call.ctx, a, b))

\* --------------------------------------------------- properties, SpecArith
Applied(f, value, N) ==
    /\ call.op = "apply_single_filter"
    /\ call.name = f \o <<":">> \o N
    /\ call.ctx = (N_x :> VString(value))

\* the exact sum or product of two texts that parse as i64
ExactResult(f, value, N) ==
    IF f = S_add THEN BigAdd(BigOfText(value), BigOfText(N))
    ELSE BigMul(BigOfText(value), BigOfText(N))

\* the input or N does not parse as an i64, or the exact result does not
\* fit in an i64
OutOfRange(f, value, N) ==
    \/ ~parses_i64(value)
    \/ ~parses_i64(N)
    \/ ~FitsI64(ExactResult(f, value, N))

ArithCases ==
    {<<S_add, v, N>> : v \in ArithValues, N \in AddArgs}
    \cup {<<S_multiply, v, N>> : v \in ArithValues, N \in MultiplyArgs}

\* C25: add:N and multiply:N return the input unchanged whenever the input
\* or N does not parse as an i64 or the exact sum or product does not fit in
\* an i64; they never wrap around and never abort.
C25_ArithmeticInRange ==
    \A c \in ArithCases :
        Applied(c[1], c[2], c[3])
            => /\ IsOk(call.result)
               /\ OutOfRange(c[1], c[2], c[3]) => call.result = Ok(c[2])

\* --------------------------------------------------- properties, SpecDebug
\* C27: render_string_with_debug(t, ctx).output equals render_string(t, ctx)
\* for every template and context: collecting the trace does not change
\* what is rendered.
C27_DebugOutputEqualsRender ==
    call.op = "render_string_with_debug"
        => IF IsOk(render_string(call.before, fs, call.name, call.ctx).r)
           THEN /\ IsOk(call.result)
                /\ call.result.val.output
                       = render_string(call.before, fs, call.name, call.ctx).r.val
           ELSE ~IsOk(call.result)

\* --------------------------------------------------- properties, SpecPaths
\* the entry points that take a template name
PathOps == {"load_template", "load_template_mmap", "render", "render_v040", "compile_to_bytecode", "load_template_async"}

\* a name that validate_template_path refuses
Rejected(name) == ~IsOk(validate_template_path(fs, name))

\* the names whose file has been read
ReadNames == {engine.reads[i] : i \in 1..Len(engine.reads)}

\* C30: no entry point looks at the file of a name that path validation
\* refuses: a call with such a name returns a Security error, records no
\* modification time and reads nothing, and no file of such a name is ever
\* read through an include or a parent either.
C30_ValidatedBeforeAccess ==
    /\ \A n \in ReadNames : ~Rejected(n)
    /\ (call.op \in PathOps /\ Rejected(call.name))
           => /\ call.result = Err("Security")
              /\ engine.reads = call.before.reads
              /\ engine.file_mtimes = call.before.file_mtimes

\* -------------------------------------------- properties, SpecDiagnostics
\* the nesting errors of a sequence of directives, by the open-stack: a
\* close on an empty stack is unexpected, a close of the other kind is
\* mismatched (and closes what it met), what is left open is unclosed
RECURSIVE NestingErrors(_, _)
CloseErrors(kind, stack, rest) ==
    IF stack = <<>> THEN <<"Unexpected closing directive">> \o NestingErrors(rest, stack)
    ELSE IF stack[Len(stack)] # kind
    THEN <<"Mismatched closing directive">> \o NestingErrors(rest, StackPop(stack))
    ELSE NestingErrors(rest, StackPop(stack))

NestingErrors(toks, stack) ==
    IF toks = <<>> THEN [i \in 1..Len(stack) |-> "Unclosed {} directive"]
    ELSE IF Head(toks) = D_if THEN NestingErrors(Tail(toks), Append(stack, "if"))
    ELSE IF Head(toks) = D_for THEN NestingErrors(Tail(toks), Append(stack, "for"))
    ELSE IF Head(toks) = IF_END THEN CloseErrors("if", stack, Tail(toks))
    ELSE IF Head(toks) = FOR_END THEN CloseErrors("for", stack, Tail(toks))
    ELSE NestingErrors(Tail(toks), stack)

NestingMessages ==
    {"Unexpected closing directive", "Mismatched closing directive", "Unclosed {} directive"}

IsNestingError(d) == d.message \in NestingMessages /\ d.severity = "error"

\* the messages of the nesting errors among the diagnostics, in order
ReportedNestingErrors(diags) ==
    [i \in 1..Len(SelectSeq(diags, IsNestingError)) |-> SelectSeq(diags, IsNestingError)[i].message]

\* C22: get_diagnostics_for_editor reports an error for every {{/if}} or
\* {{/for}} that arrives on an empty stack (unexpected close) or closes a
\* directive of the other kind (mismatched close), and an Unclosed error for
\* every {{if}} / {{for}} still open at the end; a properly nested template
\* yields none of these diagnostics.
C22_NestingDiagnostics ==
    \A toks \in DiagnosticTemplates :
        (call.op = "get_diagnostics_for_editor" /\ call.name = Concat(toks))
            => /\ IsOk(call.result)
               /\ ReportedNestingErrors(call.result.val) = NestingErrors(toks, <<>>)

====
